---- MODULE Spec2Model ----
(***************************************************************************)
(* Verification model of bridge-v4-stt.                                    *)
(*                                                                         *)
(* SpecPool    : the tab pool of src/archive/tab-pool-manager.js with the  *)
(*               callers of src/archive/production-server.js.              *)
(* SpecSession : the webhook sessions of src/proxy_server.js: deliveries,  *)
(*               bring-up, timers, hangup and teardown.                    *)
(* SpecIngress : the whole ingress: one more webhook delivery (the races   *)
(*               that need an older session and two deliveries) and the    *)
(*               DTMF digit events.                                        *)
(*                                                                         *)
(* JavaScript runs one callback at a time: every action below is the code  *)
(* between two awaits (or one timer / event callback), and an await is a   *)
(* point where the other handlers may run.                                 *)
(***************************************************************************)
EXTENDS Integers, Sequences, FiniteSets, TLC

(* ----------------------------- bounds ---------------------------------- *)
PoolSize == 1
MaxTabs == 3
NumClients == 2

None == 0 - 1

Clients == 1 .. NumClients
TabIds == 0 .. (MaxTabs - 1)

VARIABLES
  (* TabPoolManager *)
  tabs,          \* this.tabs: the tabIds in the Map, in insertion order
  tabObj,        \* the slot objects {busy, callId} of the Map, by tabId (an object
                 \* that left the Map is dropped: no code path reads it again)
  pageSt,        \* the puppeteer page of each tabId: none / ok / dead (crashed or closed)
  nextTabId,     \* this.nextTabId
  (* callers of the pool, one per inbound call; the call id is the caller's index *)
  pc,            \* position of each caller
  held,          \* the tabId getAvailableTab returned to the caller, None when not holding
  snap,          \* [emergency, ids]: whether the caller's getAvailableTab found no free
                 \* slot, and the tabIds that were in the pool at that moment (kept
                 \* while the call is in getAvailableTab and until it is used)
  activeCalls,   \* production-server activeCalls: callId -> tabId (None: no entry)
  rel,           \* the releaseTab invocation started for each caller
  hm             \* the health monitor sweep

poolVars == <<tabs, tabObj, pageSt, nextTabId, pc, held, snap, activeCalls, rel, hm>>

VARIABLES
  (* proxy_server.js *)
  processedWebhooks,  \* the dedup Set: call-id keys and '<caller>_active' keys
  activeBridges,      \* the Map callId -> {page, callerNumber}, in insertion order
  browser,            \* whether the shared puppeteer browser has been launched
  page,               \* the puppeteer page each webhook handler opened
  dtmfBuffer,         \* the Map callId -> digits (NoBuffer: no entry)
  (* one handleWebhook invocation per delivered inbound-call webhook *)
  hpc,                \* position of the handler
  hid,                \* webhook.id of the delivery
  iter,               \* the activeBridges.entries() iterator of the same-caller loop
  resp,               \* the HTTP response the handler has sent
  ttl,                \* the 120 s dedup timer the handler armed
  poller,             \* the 1 s title poller the handler started
  fallback,           \* the 600 s fallback timer the handler armed
  (* one hangup notify event per call id *)
  hangup,             \* position of its handleNotifyEvent invocation
  (* one handleNotifyEvent invocation per '*' or '#' event *)
  dh,                 \* its position, call id, key, and whether the array it
                      \* holds is still the one in dtmfBuffer
  (* the handleContextUpdate invocation of a run *)
  ctx                 \* its position, call id, page, update, what it sent on
                      \* the relay socket and the HTTP status it answered

ingressVars == <<processedWebhooks, activeBridges, browser, page, dtmfBuffer, hpc, hid,
                 iter, resp, ttl, poller, fallback, hangup, dh, ctx>>

(* the functions and classes that are specified on their own *)
VARIABLES
  ssnIn,              \* the digits given to validateSwedishSSN
  ssnOut,             \* what it returned (NotCalled before the call)
  (* one SonioxSTT instance; a text is the sequence of its pieces *)
  currentTranscript,  \* this.currentTranscript: the accumulated final tokens
  partialTranscript,  \* this.partialTranscript: the current non-final tokens
  transcripts,        \* the arguments of the onTranscript calls, in order
  sttWs,              \* this.ws and stop(): "none", "open", "closing", "awaiting", "stopped"
  finalizeSent        \* whether a {type: 'finalize'} message went to the engine

ssnVars == <<ssnIn, ssnOut>>

sttVars == <<currentTranscript, partialTranscript, transcripts, sttWs, finalizeSent>>

(* what runs in the page of one call *)
VARIABLES
  (* one VirtualAudioSource *)
  audioQueue,         \* this.audioQueue: the buffers waiting, oldest first
  isPlaying,          \* this.isPlaying
  currentSource,      \* this.currentSource: a source node, or None for null
  nodes,              \* the buffer source nodes created so far, in order of start()
  sinkLog,            \* what was enqueued and cleared so far
  (* one SonioxSTT instance from initialize() to stop() *)
  stt,                \* ws, isActive, keepaliveInterval, lastAudioTime and the
                      \* position of initialize()
  now,                \* Date.now() since the constructor ran, in milliseconds
  sttLog,             \* statuses and errors reported, what was sent on the socket
  (* one ElevenLabsBridge *)
  el,                 \* this.ws, conversationReady, isActive, position of initialize()
  sock,               \* the WebSockets connectToAgent created
  wire,               \* what the bridge sent, in order
  elLog,              \* the statuses reported, the timers of sendTextMessage
  (* isValidSwedishSSN on its own *)
  chkIn,              \* the string it is given
  chkOut,             \* what its calls returned, in order
  (* the audio capture of one SonioxSTT on its own *)
  audioBuffer,        \* this.audioBuffer: the samples not sent yet
  cap,                \* isActive, the socket, the processor, the callbacks fired
  chunks,             \* what ws.send was given, in order
  heard               \* the samples of the callbacks that passed the guard, in order

sinkVars == <<audioQueue, isPlaying, currentSource, nodes, sinkLog>>

sonioxVars == <<stt, now, sttLog>>

bridgeVars == <<el, sock, wire, elLog>>

chkVars == <<chkIn, chkOut>>

capVars == <<audioBuffer, cap, chunks, heard>>

pageVars == <<sinkVars, sonioxVars, bridgeVars, chkVars, capVars>>

unitVars == <<ssnVars, sttVars, pageVars>>

vars == <<poolVars, ingressVars, unitVars>>

(* ------------------------- TabPoolManager ------------------------------ *)

FreshTab == [busy |-> FALSE, callId |-> None]

InPool(t) == \E i \in 1 .. Len(tabs) : tabs[i] = t

TabSet == {tabs[i] : i \in 1 .. Len(tabs)}

IndexOf(t) == CHOOSE i \in 1 .. Len(tabs) : tabs[i] = t

(* Map.delete(tabId) as a sequence; a no-op when the key is absent *)
MapDelete(s, t) == SelectSeq(s, LAMBDA x : x # t)

(* the slot objects after Map.delete(tabId) *)
ObjDelete(t) == [tabObj EXCEPT ![t] = FreshTab]

(* a live Map iterator that has passed p entries has passed one fewer once *)
(* one of them is deleted                                                  *)
IterAfterDelete(p, t) == IF InPool(t) /\ IndexOf(t) <= p THEN p - 1 ELSE p

(* getAvailableTab's loop: the first entry of the Map that is not busy *)
HasFree == \E i \in 1 .. Len(tabs) : ~tabObj[tabs[i]].busy

FirstFree == tabs[CHOOSE i \in 1 .. Len(tabs) :
                    /\ ~tabObj[tabs[i]].busy
                    /\ \A j \in 1 .. (i - 1) : tabObj[tabs[j]].busy]

(* the continuation of `await this.createTab()` in getAvailableTab is queued *)
(* as a microtask: no timer or I/O callback runs before it, only code that  *)
(* other continuations call synchronously                                   *)
MicrotaskPending == \E c \in Clients : pc[c] = "created"

NoSnap == [emergency |-> FALSE, ids |-> {}]

PoolInit ==
  /\ tabs = [i \in 1 .. PoolSize |-> i - 1]
  /\ tabObj = [t \in TabIds |-> FreshTab]
  /\ pageSt = [t \in TabIds |-> IF t < PoolSize THEN "ok" ELSE "none"]
  /\ nextTabId = PoolSize
  /\ pc = [c \in Clients |-> "idle"]
  /\ held = [c \in Clients |-> None]
  /\ snap = [c \in Clients |-> NoSnap]
  /\ activeCalls = [c \in Clients |-> None]
  /\ rel = [c \in Clients |-> [pc |-> "none", tab |-> None, new |-> None]]
  /\ hm = [pc |-> "idle", pos |-> 0, tab |-> None, new |-> None]

(* releaseTab(tabId) up to its first await: nothing to do for an unknown tabId, *)
(* otherwise page.reload() is started                                           *)
ReleaseDone == [pc |-> "done", tab |-> None, new |-> None]

ReleaseTabCall(t) ==
  IF InPool(t) THEN [pc |-> "reloading", tab |-> t, new |-> None]
               ELSE ReleaseDone

(* the slot object as releaseTab leaves it when the reload succeeded *)
ReleasedTab(o) == [o EXCEPT !.busy = FALSE, !.callId = None]

(* the slot object as getAvailableTab leaves the slot it hands out *)
AllocatedTab(o) == [o EXCEPT !.busy = TRUE]

(* getAvailableTab: a free slot is marked busy and returned at once; with no *)
(* free slot createTab() is called, which takes the next tabId and awaits   *)
GetAvailableTab(c) ==
  /\ pc[c] = "idle"
  /\ \A d \in Clients : d < c => pc[d] # "idle"   \* calls are numbered as they arrive
  /\ IF HasFree
       THEN /\ tabObj' = [tabObj EXCEPT ![FirstFree] = AllocatedTab(@)]
            /\ held' = [held EXCEPT ![c] = FirstFree]
            /\ pc' = [pc EXCEPT ![c] = "got"]
            /\ UNCHANGED <<nextTabId, snap>>
       ELSE /\ nextTabId < MaxTabs
            /\ held' = [held EXCEPT ![c] = nextTabId]
            /\ nextTabId' = nextTabId + 1
            /\ snap' = [snap EXCEPT ![c] = [emergency |-> TRUE, ids |-> TabSet]]
            /\ pc' = [pc EXCEPT ![c] = "creating"]
            /\ UNCHANGED tabObj
  /\ UNCHANGED <<tabs, pageSt, activeCalls, rel, hm>>
  /\ UNCHANGED <<ingressVars, unitVars>>

(* createTab's last statements for the emergency slot: the warmed page is  *)
(* put in the Map as a free slot and the tabId is returned                 *)
EmergencyCreated(c) ==
  /\ pc[c] = "creating"
  /\ ~MicrotaskPending
  /\ tabs' = Append(tabs, held[c])
  /\ tabObj' = [tabObj EXCEPT ![held[c]] = FreshTab]
  /\ pageSt' = [pageSt EXCEPT ![held[c]] = "ok"]
  /\ pc' = [pc EXCEPT ![c] = "created"]
  /\ UNCHANGED <<nextTabId, held, snap, activeCalls, rel, hm>>
  /\ UNCHANGED <<ingressVars, unitVars>>

(* EmergencyReturn with `tab.busy = true` left out *)
EmergencyReturnUnmarked(c) ==
  /\ pc[c] = "created"
  /\ pc' = [pc EXCEPT ![c] = "got"]
  /\ snap' = [snap EXCEPT ![c].ids = {}]
  /\ UNCHANGED <<tabs, tabObj, pageSt, nextTabId, held, activeCalls, rel, hm>>
  /\ UNCHANGED <<ingressVars, unitVars>>

(* getAvailableTab after `await this.createTab()`: tab = tabs.get(tabId);   *)
(* tab.busy = true; return. A missing entry makes tab.busy throw.           *)
EmergencyReturn(c) ==
  /\ pc[c] = "created"
  /\ IF InPool(held[c])
       THEN /\ tabObj' = [tabObj EXCEPT ![held[c]] = AllocatedTab(@)]
            /\ pc' = [pc EXCEPT ![c] = "got"]
            /\ UNCHANGED held
            /\ snap' = [snap EXCEPT ![c].ids = {}]
       ELSE /\ pc' = [pc EXCEPT ![c] = "rejected"]
            /\ held' = [held EXCEPT ![c] = None]
            /\ snap' = [snap EXCEPT ![c] = NoSnap]
            /\ UNCHANGED tabObj
  /\ UNCHANGED <<tabs, pageSt, nextTabId, activeCalls, rel, hm>>
  /\ UNCHANGED <<ingressVars, unitVars>>

(* startBridge up to its await: throws for an unknown tabId, otherwise sets *)
(* tab.callId and starts page.evaluate                                      *)
StartBridge(c) ==
  /\ pc[c] = "got"
  /\ IF InPool(held[c])
       THEN /\ tabObj' = [tabObj EXCEPT ![held[c]].callId = c]
            /\ pc' = [pc EXCEPT ![c] = "starting"]
            /\ UNCHANGED held
       ELSE /\ pc' = [pc EXCEPT ![c] = "failed"]
            /\ held' = [held EXCEPT ![c] = None]
            /\ UNCHANGED tabObj
  /\ snap' = [snap EXCEPT ![c] = NoSnap]
  /\ UNCHANGED <<tabs, pageSt, nextTabId, activeCalls, rel, hm>>
  /\ UNCHANGED <<ingressVars, unitVars>>

(* page.evaluate resolved: startBridge returns true and the caller records *)
(* the call in activeCalls                                                  *)
StartBridgeOk(c) ==
  /\ pc[c] = "starting"
  /\ ~MicrotaskPending
  /\ pageSt[held[c]] = "ok"
  /\ activeCalls' = [activeCalls EXCEPT ![c] = held[c]]
  /\ pc' = [pc EXCEPT ![c] = "active"]
  /\ UNCHANGED <<tabs, tabObj, pageSt, nextTabId, held, snap, rel, hm>>
  /\ UNCHANGED <<ingressVars, unitVars>>

(* page.evaluate rejected: releaseTab(tabId) is called without await and   *)
(* startBridge returns false                                                *)
StartBridgeFail(c) ==
  /\ pc[c] = "starting"
  /\ ~MicrotaskPending
  /\ rel' = [rel EXCEPT ![c] = ReleaseTabCall(held[c])]
  /\ pc' = [pc EXCEPT ![c] = "ended"]
  /\ held' = [held EXCEPT ![c] = None]
  /\ UNCHANGED <<tabs, tabObj, pageSt, nextTabId, snap, activeCalls, hm>>
  /\ UNCHANGED <<ingressVars, unitVars>>

(* cleanupCall(callId): the activeCalls entry is deleted, then releaseTab *)
CleanupCall(c) ==
  /\ pc[c] = "active"
  /\ activeCalls[c] # None
  /\ activeCalls' = [activeCalls EXCEPT ![c] = None]
  /\ rel' = [rel EXCEPT ![c] = ReleaseTabCall(activeCalls[c])]
  /\ pc' = [pc EXCEPT ![c] = "ended"]
  /\ held' = [held EXCEPT ![c] = None]
  /\ UNCHANGED <<tabs, tabObj, pageSt, nextTabId, snap, hm>>
  /\ UNCHANGED <<ingressVars, unitVars>>

(* releaseTab: the reload succeeded *)
ReloadOk(c) ==
  /\ rel[c].pc = "reloading"
  /\ ~MicrotaskPending
  /\ pageSt[rel[c].tab] = "ok"
  /\ tabObj' = [tabObj EXCEPT ![rel[c].tab] = ReleasedTab(@)]
  /\ rel' = [rel EXCEPT ![c] = ReleaseDone]
  /\ UNCHANGED <<tabs, pageSt, nextTabId, pc, held, snap, activeCalls, hm>>
  /\ UNCHANGED <<ingressVars, unitVars>>

(* releaseTab: the reload threw (dead page, or the 5 s timeout): the page   *)
(* is closed                                                                *)
ReloadFail(c) ==
  /\ rel[c].pc = "reloading"
  /\ ~MicrotaskPending
  /\ pageSt' = [pageSt EXCEPT ![rel[c].tab] = "dead"]
  /\ rel' = [rel EXCEPT ![c].pc = "closing"]
  /\ UNCHANGED <<tabs, tabObj, nextTabId, pc, held, snap, activeCalls, hm>>
  /\ UNCHANGED <<ingressVars, unitVars>>

(* releaseTab after page.close(): tabs.delete(tabId), then createTab() up to *)
(* its first await                                                           *)
ReleaseRecreate(c) ==
  /\ rel[c].pc = "closing"
  /\ ~MicrotaskPending
  /\ nextTabId < MaxTabs
  /\ tabs' = MapDelete(tabs, rel[c].tab)
  /\ tabObj' = ObjDelete(rel[c].tab)
  /\ hm' = [hm EXCEPT !.pos = IterAfterDelete(@, rel[c].tab)]
  /\ rel' = [rel EXCEPT ![c].pc = "creating", ![c].new = nextTabId]
  /\ nextTabId' = nextTabId + 1
  /\ UNCHANGED <<pageSt, pc, held, snap, activeCalls>>
  /\ UNCHANGED <<ingressVars, unitVars>>

(* createTab's last statements for the slot that replaces a released one *)
ReleaseCreated(c) ==
  /\ rel[c].pc = "creating"
  /\ ~MicrotaskPending
  /\ tabs' = Append(tabs, rel[c].new)
  /\ tabObj' = [tabObj EXCEPT ![rel[c].new] = FreshTab]
  /\ pageSt' = [pageSt EXCEPT ![rel[c].new] = "ok"]
  /\ rel' = [rel EXCEPT ![c] = ReleaseDone]
  /\ UNCHANGED <<nextTabId, pc, held, snap, activeCalls, hm>>
  /\ UNCHANGED <<ingressVars, unitVars>>

(* the health monitor's for-loop over this.tabs.entries(): the next entry  *)
(* is probed with page.evaluate, or the sweep ends                         *)
HMAdvance(seq, passed) ==
  IF passed < Len(seq)
    THEN [pc |-> "probing", pos |-> passed + 1, tab |-> seq[passed + 1], new |-> None]
    ELSE [pc |-> "idle", pos |-> 0, tab |-> None, new |-> None]

(* the setInterval callback of startHealthMonitor starts a sweep *)
HMTick ==
  /\ hm.pc = "idle"
  /\ ~MicrotaskPending
  /\ Len(tabs) > 0
  /\ hm' = HMAdvance(tabs, 0)
  /\ UNCHANGED <<tabs, tabObj, pageSt, nextTabId, pc, held, snap, activeCalls, rel>>
  /\ UNCHANGED <<ingressVars, unitVars>>

(* the probe answered: the loop goes on *)
HMProbeOk ==
  /\ hm.pc = "probing"
  /\ ~MicrotaskPending
  /\ pageSt[hm.tab] = "ok"
  /\ hm' = HMAdvance(tabs, hm.pos)
  /\ UNCHANGED <<tabs, tabObj, pageSt, nextTabId, pc, held, snap, activeCalls, rel>>
  /\ UNCHANGED <<ingressVars, unitVars>>

(* what the health monitor does to the callers' bookkeeping when it finds  *)
(* tab t dead: nothing, activeCalls is not touched                         *)
HMForceClose(t) == activeCalls

(* the probe threw: tabs.delete(tabId), then createTab() up to its first   *)
(* await                                                                   *)
HMProbeFail ==
  /\ hm.pc = "probing"
  /\ ~MicrotaskPending
  /\ pageSt[hm.tab] # "ok"
  /\ nextTabId < MaxTabs
  /\ tabs' = MapDelete(tabs, hm.tab)
  /\ tabObj' = ObjDelete(hm.tab)
  /\ activeCalls' = HMForceClose(hm.tab)
  /\ hm' = [pc |-> "creating", new |-> nextTabId, tab |-> None,
            pos |-> IterAfterDelete(hm.pos, hm.tab)]
  /\ nextTabId' = nextTabId + 1
  /\ UNCHANGED <<pageSt, pc, held, snap, rel>>
  /\ UNCHANGED <<ingressVars, unitVars>>

(* createTab's last statements for the replacement slot; the loop goes on *)
HMCreated ==
  /\ hm.pc = "creating"
  /\ ~MicrotaskPending
  /\ tabs' = Append(tabs, hm.new)
  /\ tabObj' = [tabObj EXCEPT ![hm.new] = FreshTab]
  /\ pageSt' = [pageSt EXCEPT ![hm.new] = "ok"]
  /\ hm' = HMAdvance(tabs', hm.pos)
  /\ UNCHANGED <<nextTabId, pc, held, snap, activeCalls, rel>>
  /\ UNCHANGED <<ingressVars, unitVars>>

(* a page of the pool stops responding (renderer crash) *)
PageCrash(t) ==
  /\ InPool(t)
  /\ ~MicrotaskPending
  /\ pageSt[t] = "ok"
  /\ pageSt' = [pageSt EXCEPT ![t] = "dead"]
  /\ UNCHANGED <<tabs, tabObj, nextTabId, pc, held, snap, activeCalls, rel, hm>>
  /\ UNCHANGED <<ingressVars, unitVars>>

PoolNext ==
  \/ \E c \in Clients : GetAvailableTab(c)
  \/ \E c \in Clients : EmergencyCreated(c)
  \/ \E c \in Clients : EmergencyReturn(c)
  \/ \E c \in Clients : StartBridge(c)
  \/ \E c \in Clients : StartBridgeOk(c)
  \/ \E c \in Clients : StartBridgeFail(c)
  \/ \E c \in Clients : CleanupCall(c)
  \/ \E c \in Clients : ReloadOk(c)
  \/ \E c \in Clients : ReloadFail(c)
  \/ \E c \in Clients : ReleaseRecreate(c)
  \/ \E c \in Clients : ReleaseCreated(c)
  \/ HMTick
  \/ HMProbeOk
  \/ HMProbeFail
  \/ HMCreated
  \/ \E t \in TabIds : PageCrash(t)

(* ------------------------- proxy_server.js ----------------------------- *)

NumHandlers == 2
NumCalls == 2
MaxDigits == 1

(* the delays of the two setTimeout calls of handleWebhook, in milliseconds *)
DedupTtlMs == 120000
FallbackMs == 600000

(* the handleWebhook invocations: the first NumHandlers of them are delivered *)
(* in SpecSession, all of them in SpecIngress                                 *)
Handlers == 1 .. (NumHandlers + 1)
CallIds == 1 .. NumCalls

(* webhook.number.caller of the call with this id: two consecutive call ids *)
(* come from the same number                                                *)
CallerOf(id) == (id + 1) \div 2

(* the two kinds of key handleWebhook keeps in processedWebhooks *)
IdKey(id) == <<"id", id>>

ActiveKey(n) == <<"active", n>>

(* the plain digits the DTMF events carry *)
PlainDigits == {7}

NoBuffer == <<None>>

(* a page is named by the handler that opened it *)
NoPage == [st |-> "none", ended |-> FALSE, ws |-> FALSE, proc |-> FALSE, audio |-> 0]

BlankPage == [st |-> "open", ended |-> FALSE, ws |-> FALSE, proc |-> FALSE, audio |-> 0]

(* index.html loaded with inbound=true: relay socket open, processor running *)
LoadedPage == [st |-> "open", ended |-> FALSE, ws |-> TRUE, proc |-> TRUE, audio |-> 0]

(* a closed page takes its socket and its audio graph with it *)
ClosedPage == [st |-> "closed", ended |-> FALSE, ws |-> FALSE, proc |-> FALSE, audio |-> 0]

(* the page after the function hangup evaluates in it *)
TerminatedPage(p) == [p EXCEPT !.ended = TRUE, !.ws = FALSE, !.proc = FALSE]

NoIter == [pos |-> 0, old |-> None, page |-> None]

NoHangup == [pc |-> "none", page |-> None]

(* the '*' and '#' events of a run *)
NumEvents == 2

DtmfSlots == 1 .. NumEvents

NoDtmf == [pc |-> "idle", id |-> None, key |-> None, att |-> FALSE, had |-> 0]

(* the bodies POST /api/context/{callId} is given: {type, text} updates, *)
(* and a body JSON.parse throws on                                       *)
Updates == {[type |-> "contextual_update", text |-> "a"],
            [type |-> "user_message", text |-> "b"]}

Malformed == [type |-> "not JSON", text |-> ""]

NoUpdate == [type |-> "", text |-> ""]

NoContext == [pc |-> "idle", id |-> None, page |-> None, update |-> NoUpdate,
              sent |-> NoUpdate, status |-> 0]

IngressInit ==
  /\ processedWebhooks = {}
  /\ activeBridges = <<>>
  /\ browser = FALSE
  /\ page = [h \in Handlers |-> NoPage]
  /\ dtmfBuffer = [id \in CallIds |-> NoBuffer]
  /\ hpc = [h \in Handlers |-> "idle"]
  /\ hid = [h \in Handlers |-> None]
  /\ iter = [h \in Handlers |-> NoIter]
  /\ resp = [h \in Handlers |-> "none"]
  /\ ttl = [h \in Handlers |-> "off"]
  /\ poller = [h \in Handlers |-> "off"]
  /\ fallback = [h \in Handlers |-> "off"]
  /\ hangup = [id \in CallIds |-> NoHangup]
  /\ dh = [k \in DtmfSlots |-> NoDtmf]
  /\ ctx = NoContext

(* activeBridges.has / get *)
HasBridge(id) == \E i \in 1 .. Len(activeBridges) : activeBridges[i].id = id

BridgeOf(id) == activeBridges[CHOOSE i \in 1 .. Len(activeBridges) : activeBridges[i].id = id]

(* activeBridges.delete(id); a no-op when the key is absent *)
BridgesDelete(ab, id) == SelectSeq(ab, LAMBDA e : e.id # id)

(* activeBridges.set(id, {page}): an existing key keeps its place in the *)
(* Map and gets the new value, a new key goes last                       *)
BridgesSet(ab, id, p) ==
  IF \E i \in 1 .. Len(ab) : ab[i].id = id
    THEN [i \in 1 .. Len(ab) |-> IF ab[i].id = id THEN [id |-> id, page |-> p] ELSE ab[i]]
    ELSE Append(ab, [id |-> id, page |-> p])

(* the live entries() iterators once activeBridges.delete(id) has run: an *)
(* iterator that had passed the deleted entry has passed one entry fewer   *)
ItersAfterDelete(its, ab, id) ==
  [h \in Handlers |->
     IF \E i \in 1 .. Len(ab) : ab[i].id = id /\ i <= its[h].pos
       THEN [its[h] EXCEPT !.pos = @ - 1]
       ELSE its[h]]

(* the entries of caller n the loop has yet to reach on which page.close() *)
(* does not throw (close() of a page that is not open rejects, the catch    *)
(* logs 'Old tab already closed' and the loop goes on)                      *)
MatchAfter(ab, pos, n) ==
  {i \in (pos + 1) .. Len(ab) : CallerOf(ab[i].id) = n /\ page[ab[i].page].st = "open"}

Lowest(S) == CHOOSE i \in S : \A j \in S : i <= j

(* RespondAccepted with the res.end() left out *)
RespondLater(r, h) == r

(* res.end(actions) of an accepted webhook *)
RespondAccepted(r, h) == [r EXCEPT ![h] = "actions"]

(* lines 138-171: both keys are added, the TTL timer is armed, the response *)
(* is sent, and bring-up starts with the launch when there is no browser    *)
Accept(h, id, pw, ab, its) ==
  /\ processedWebhooks' = pw \cup {IdKey(id), ActiveKey(CallerOf(id))}
  /\ ttl' = [ttl EXCEPT ![h] = "armed"]
  /\ resp' = RespondAccepted(resp, h)
  /\ hpc' = [hpc EXCEPT ![h] = IF browser THEN "opening" ELSE "launching"]
  /\ iter' = [its EXCEPT ![h] = NoIter]
  /\ activeBridges' = ab
  /\ UNCHANGED page

(* the same-caller loop from iterator position pos: it suspends on the     *)
(* close of the next entry of the caller, or ends, drops the caller's      *)
(* active key and goes on to accept                                        *)
Scan(h, id, pos, pw, ab, its) ==
  LET S == MatchAfter(ab, pos, CallerOf(id)) IN
  IF S # {}
    THEN LET i == Lowest(S) IN
         /\ page' = [page EXCEPT ![ab[i].page] = ClosedPage]
         /\ iter' = [its EXCEPT ![h] = [pos |-> i, old |-> ab[i].id, page |-> ab[i].page]]
         /\ hpc' = [hpc EXCEPT ![h] = "closingOld"]
         /\ processedWebhooks' = pw
         /\ activeBridges' = ab
         /\ UNCHANGED <<resp, ttl>>
    ELSE Accept(h, id, pw \ {ActiveKey(CallerOf(id))}, ab, its)

(* req.on('end') of handleWebhook up to its first await *)
Arrive(h, id) ==
  /\ hpc[h] = "idle"
  /\ \A d \in Handlers : d < h => hpc[d] # "idle"   \* deliveries are numbered as they arrive
  /\ \A j \in CallIds : j < id => \E d \in Handlers : hid[d] = j   \* and so are call ids
  /\ hid' = [hid EXCEPT ![h] = id]
  /\ IF IdKey(id) \in processedWebhooks
       THEN /\ resp' = [resp EXCEPT ![h] = "duplicate"]
            /\ hpc' = [hpc EXCEPT ![h] = "duplicate"]
            /\ UNCHANGED <<processedWebhooks, activeBridges, page, iter, ttl>>
       ELSE IF ActiveKey(CallerOf(id)) \in processedWebhooks
              THEN Scan(h, id, 0, processedWebhooks, activeBridges, iter)
              ELSE Accept(h, id, processedWebhooks, activeBridges, iter)
  /\ UNCHANGED <<browser, dtmfBuffer, poller, fallback, hangup>>
  /\ UNCHANGED <<poolVars, dh, ctx, unitVars>>

(* webhook.id and webhook.number?.caller of a JSON body that has neither: *)
(* both are undefined, and undefined is used as any other id and number   *)
UndefinedId == 0

(* the bodies that are not a call: text JSON.parse throws on, and the    *)
(* object {}                                                             *)
BadBodies == {"not JSON", "{}"}

(* req.on('end') of handleWebhook for such a body: the throw of JSON.parse *)
(* is answered 400 by the outer catch; {} goes the way of every webhook    *)
ArriveMalformed(h, b) ==
  IF b = "not JSON"
    THEN /\ hpc[h] = "idle"
         /\ \A d \in Handlers : d < h => hpc[d] # "idle"
         /\ hpc' = [hpc EXCEPT ![h] = "rejected"]
         /\ resp' = [resp EXCEPT ![h] = "error"]
         /\ UNCHANGED <<processedWebhooks, activeBridges, browser, page, dtmfBuffer, hid,
                        iter, ttl, poller, fallback, hangup>>
         /\ UNCHANGED <<poolVars, dh, ctx, unitVars>>
    ELSE Arrive(h, UndefinedId)

(* the old page closed: its entry and its id key are deleted, the loop goes on *)
CloseOldDone(h) ==
  /\ hpc[h] = "closingOld"
  /\ LET old == iter[h].old
         its == ItersAfterDelete(iter, activeBridges, old)
     IN Scan(h, hid[h], its[h].pos, processedWebhooks \ {IdKey(old)},
             BridgesDelete(activeBridges, old), its)
  /\ UNCHANGED <<browser, dtmfBuffer, hid, poller, fallback, hangup>>
  /\ UNCHANGED <<poolVars, dh, ctx, unitVars>>

(* puppeteer.launch() resolved *)
LaunchDone(h) ==
  /\ hpc[h] = "launching"
  /\ browser' = TRUE
  /\ hpc' = [hpc EXCEPT ![h] = "opening"]
  /\ UNCHANGED <<processedWebhooks, activeBridges, page, dtmfBuffer, hid, iter, resp, ttl,
                 poller, fallback, hangup>>
  /\ UNCHANGED <<poolVars, dh, ctx, unitVars>>

(* browser.newPage() resolved; page.goto is called *)
NewPageDone(h) ==
  /\ hpc[h] = "opening"
  /\ page' = [page EXCEPT ![h] = BlankPage]
  /\ hpc' = [hpc EXCEPT ![h] = "loading"]
  /\ UNCHANGED <<processedWebhooks, activeBridges, browser, dtmfBuffer, hid, iter, resp,
                 ttl, poller, fallback, hangup>>
  /\ UNCHANGED <<poolVars, dh, ctx, unitVars>>

(* page.goto resolved: the session is registered, the poller is started and *)
(* the fallback timer armed                                                 *)
GotoDone(h) ==
  /\ hpc[h] = "loading"
  /\ page' = [page EXCEPT ![h] = LoadedPage]
  /\ activeBridges' = BridgesSet(activeBridges, hid[h], h)
  /\ poller' = [poller EXCEPT ![h] = "on"]
  /\ fallback' = [fallback EXCEPT ![h] = "armed"]
  /\ hpc' = [hpc EXCEPT ![h] = "registered"]
  /\ UNCHANGED <<processedWebhooks, browser, dtmfBuffer, hid, iter, resp, ttl, hangup>>
  /\ UNCHANGED <<poolVars, dh, ctx, unitVars>>

(* puppeteer.launch() rejected: the catch only logs, browser stays unset *)
LaunchFail(h) ==
  /\ hpc[h] = "launching"
  /\ hpc' = [hpc EXCEPT ![h] = "failed"]
  /\ UNCHANGED <<processedWebhooks, activeBridges, browser, page, dtmfBuffer, hid, iter,
                 resp, ttl, poller, fallback, hangup>>
  /\ UNCHANGED <<poolVars, dh, ctx, unitVars>>

(* browser.newPage() rejected: the catch only logs *)
NewPageFail(h) ==
  /\ hpc[h] = "opening"
  /\ hpc' = [hpc EXCEPT ![h] = "failed"]
  /\ UNCHANGED <<processedWebhooks, activeBridges, browser, page, dtmfBuffer, hid, iter,
                 resp, ttl, poller, fallback, hangup>>
  /\ UNCHANGED <<poolVars, dh, ctx, unitVars>>

(* page.goto rejected (15 s timeout): the catch only logs *)
GotoFail(h) ==
  /\ hpc[h] = "loading"
  /\ hpc' = [hpc EXCEPT ![h] = "failed"]
  /\ UNCHANGED <<processedWebhooks, activeBridges, browser, page, dtmfBuffer, hid, iter,
                 resp, ttl, poller, fallback, hangup>>
  /\ UNCHANGED <<poolVars, dh, ctx, unitVars>>

(* the dedup timer callback *)
TTLFire(h) ==
  /\ ttl[h] = "armed"
  /\ ttl' = [ttl EXCEPT ![h] = "fired"]
  /\ processedWebhooks' = processedWebhooks \ {IdKey(hid[h]), ActiveKey(CallerOf(hid[h]))}
  /\ UNCHANGED <<activeBridges, browser, page, dtmfBuffer, hpc, hid, iter, resp, poller,
                 fallback, hangup>>
  /\ UNCHANGED <<poolVars, dh, ctx, unitVars>>

(* the poller tick that reads the title CALL_ENDED: the interval is cleared *)
(* and page.close() awaited. A tick that reads another title does nothing.  *)
(* On a page that is not open page.title() rejects and the catch clears the *)
(* interval: a closed page stays closed, so a poller that is "on" over a    *)
(* closed page is one that has stopped (PollerRunning)                      *)
PollerTick(h) ==
  /\ poller[h] = "on"
  /\ page[h].st = "open"
  /\ page[h].ended
  /\ page' = [page EXCEPT ![h] = ClosedPage]
  /\ poller' = [poller EXCEPT ![h] = "closing"]
  /\ UNCHANGED <<processedWebhooks, activeBridges, browser, dtmfBuffer, hpc, hid, iter,
                 resp, ttl, fallback, hangup>>
  /\ UNCHANGED <<poolVars, dh, ctx, unitVars>>

PollerRunning(h) == poller[h] = "on" /\ page[h].st = "open"

(* the poller's page.close() resolved: entry and both dedup keys are deleted *)
PollerClosed(h) ==
  /\ poller[h] = "closing"
  /\ poller' = [poller EXCEPT ![h] = "stopped"]
  /\ activeBridges' = BridgesDelete(activeBridges, hid[h])
  /\ iter' = ItersAfterDelete(iter, activeBridges, hid[h])
  /\ processedWebhooks' = processedWebhooks \ {IdKey(hid[h]), ActiveKey(CallerOf(hid[h]))}
  /\ UNCHANGED <<browser, page, dtmfBuffer, hpc, hid, resp, ttl, fallback, hangup>>
  /\ UNCHANGED <<poolVars, dh, ctx, unitVars>>

(* the dedup timer was armed before the fallback timer and is the shorter *)
TtlBeforeFallback(h) == DedupTtlMs < FallbackMs => ttl[h] = "fired"

(* the fallback timer callback: nothing when the id has no entry; else     *)
(* page.close() is awaited, and when it rejects the callback ends there    *)
FallbackFire(h) ==
  /\ fallback[h] = "armed"
  /\ TtlBeforeFallback(h)
  /\ IF HasBridge(hid[h])
       THEN IF page[h].st = "open"
              THEN /\ page' = [page EXCEPT ![h] = ClosedPage]
                   /\ fallback' = [fallback EXCEPT ![h] = "closing"]
              ELSE /\ fallback' = [fallback EXCEPT ![h] = "threw"]
                   /\ UNCHANGED page
       ELSE /\ fallback' = [fallback EXCEPT ![h] = "done"]
            /\ UNCHANGED page
  /\ UNCHANGED <<processedWebhooks, activeBridges, browser, dtmfBuffer, hpc, hid, iter,
                 resp, ttl, poller, hangup>>
  /\ UNCHANGED <<poolVars, dh, ctx, unitVars>>

(* the fallback's page.close() resolved: the entry of the id is deleted *)
FallbackClosed(h) ==
  /\ fallback[h] = "closing"
  /\ fallback' = [fallback EXCEPT ![h] = "done"]
  /\ activeBridges' = BridgesDelete(activeBridges, hid[h])
  /\ iter' = ItersAfterDelete(iter, activeBridges, hid[h])
  /\ UNCHANGED <<processedWebhooks, browser, page, dtmfBuffer, hpc, hid, resp, ttl, poller,
                 hangup>>
  /\ UNCHANGED <<poolVars, dh, ctx, unitVars>>

(* the telephony platform sends events for calls whose webhook was accepted *)
CallExists(id) == \E h \in Handlers : hid[h] = id /\ ttl[h] # "off"

(* handleNotifyEvent, a plain digit: the buffer is created when missing and *)
(* the digit pushed (the user_activity message changes nothing here)        *)
NotifyDtmf(id, d) ==
  /\ CallExists(id)
  /\ hangup[id].pc = "none"
  /\ Len(IF dtmfBuffer[id] = NoBuffer THEN <<>> ELSE dtmfBuffer[id]) < MaxDigits
  /\ dtmfBuffer' = [dtmfBuffer EXCEPT
                      ![id] = Append(IF @ = NoBuffer THEN <<>> ELSE @, d)]
  /\ UNCHANGED <<processedWebhooks, activeBridges, browser, page, hpc, hid, iter, resp,
                 ttl, poller, fallback, hangup>>
  /\ UNCHANGED <<poolVars, dh, ctx, unitVars>>

(* handleNotifyEvent, hangup: the buffer is deleted (a '*' or '#' handler  *)
(* in flight keeps the array it got from the Map, which is no longer the   *)
(* call's), and with an entry for the call page.evaluate is awaited        *)
NotifyHangup(id) ==
  /\ CallExists(id)
  /\ hangup[id].pc = "none"
  /\ dtmfBuffer' = [dtmfBuffer EXCEPT ![id] = NoBuffer]
  /\ dh' = [k \in DtmfSlots |-> IF dh[k].id = id
                                       THEN [dh[k] EXCEPT !.att = FALSE, !.had = 0]
                                       ELSE dh[k]]
  /\ hangup' = [hangup EXCEPT
                  ![id] = IF HasBridge(id)
                            THEN [pc |-> "evaluating", page |-> BridgeOf(id).page]
                            ELSE [pc |-> "done", page |-> None]]
  /\ UNCHANGED <<processedWebhooks, activeBridges, browser, page, hpc, hid, iter, resp,
                 ttl, poller, fallback>>
  /\ UNCHANGED <<poolVars, ctx, unitVars>>

(* the evaluate ran in the page (socket closed, processor disconnected,   *)
(* title set), or rejected because the page is closed and was caught      *)
HangupEvaluated(id) ==
  /\ hangup[id].pc = "evaluating"
  /\ hangup' = [hangup EXCEPT ![id].pc = "done"]
  /\ page' = [page EXCEPT ![hangup[id].page] =
                IF @.st = "open" THEN TerminatedPage(@) ELSE @]
  /\ UNCHANGED <<processedWebhooks, activeBridges, browser, dtmfBuffer, hpc, hid, iter,
                 resp, ttl, poller, fallback>>
  /\ UNCHANGED <<poolVars, dh, ctx, unitVars>>

(* the page of a registered session goes away under the server (the tab *)
(* crashed or was closed from outside)                                  *)
PageGone(h) ==
  /\ hpc[h] = "registered"
  /\ page[h].st = "open"
  /\ page' = [page EXCEPT ![h] = ClosedPage]
  /\ UNCHANGED <<processedWebhooks, activeBridges, browser, dtmfBuffer, hpc, hid, iter,
                 resp, ttl, poller, fallback, hangup>>
  /\ UNCHANGED <<poolVars, dh, ctx, unitVars>>

(* the steps of the webhook sessions: everything but the arrivals and the *)
(* digit events (NotifyDtmf reads and writes dtmfBuffer alone, which only *)
(* the hangup event touches besides)                                      *)
(* ---------------- handleNotifyEvent: '*', '#' and the digits ----------- *)

(* a string of digits is a sequence of the numbers 0 .. 9; null is NoSsn *)
NoSsn == <<>>

(* s.slice(-n) *)
Last(s, n) == IF Len(s) <= n THEN s ELSE SubSeq(s, Len(s) - n + 1, Len(s))

(* parseInt of the two characters of s from the 0-based index i *)
ParseInt2(s, i) == 10 * s[i + 1] + s[i + 2]

(* the Luhn weight of the digit at the 0-based index i *)
LuhnDigitOdd(s, i) ==
  IF i % 2 = 1
    THEN (IF 2 * s[i + 1] > 9 THEN 2 * s[i + 1] - 9 ELSE 2 * s[i + 1])
    ELSE s[i + 1]

LuhnDigit(s, i) ==
  IF i % 2 = 0
    THEN (IF 2 * s[i + 1] > 9 THEN 2 * s[i + 1] - 9 ELSE 2 * s[i + 1])
    ELSE s[i + 1]

RECURSIVE LuhnSum(_, _)
LuhnSum(s, i) == IF i > 8 THEN 0 ELSE LuhnDigit(s, i) + LuhnSum(s, i + 1)

isValidSwedishSSN(ssn10) ==
  /\ Len(ssn10) = 10
  /\ \A i \in 1 .. 10 : ssn10[i] \in 0 .. 9
  /\ ParseInt2(ssn10, 2) \in 1 .. 12
  /\ ParseInt2(ssn10, 4) \in 1 .. 31
  /\ (10 - (LuhnSum(ssn10, 0) % 10)) % 10 = ssn10[10]

(* the 10-digit reading is tried first, on the last 10 digits; the       *)
(* 12-digit reading validates the same last 10 digits                    *)
validateSwedishSSN(digits) ==
  IF Len(digits) >= 10 /\ isValidSwedishSSN(Last(digits, 10))
    THEN (IF ParseInt2(Last(digits, 10), 0) < 30 THEN <<2, 0>> ELSE <<1, 9>>)
           \o Last(digits, 10)
    ELSE IF Len(digits) >= 12 /\ isValidSwedishSSN(SubSeq(Last(digits, 12), 3, 12))
           THEN Last(digits, 12)
           ELSE NoSsn

(* the digit strings validateSwedishSSN is given when specified on its   *)
(* own: 9 to 12 digits, years on both sides of the pivot, a month that   *)
(* exists and one that does not, every check digit                       *)
SsnPrefixes == {<<>>, <<9>>, <<1, 9>>, <<2, 0>>}

SsnBodies == {y \o d \o <<1, 2, 3>> : y \in {<<2, 9>>, <<3, 0>>},
                                     d \in {<<0, 1, 0, 1>>, <<1, 3, 0, 1>>}}

SsnInputs == SsnBodies \cup {p \o b \o <<c>> : p \in SsnPrefixes, b \in SsnBodies, c \in 0 .. 9}

NotCalled == <<None>>

SsnInit == ssnIn \in SsnInputs /\ ssnOut = NotCalled

(* validateSwedishSSN(recentDigits) *)
ValidateCall ==
  /\ ssnOut = NotCalled
  /\ ssnOut' = validateSwedishSSN(ssnIn)
  /\ UNCHANGED <<ssnIn, poolVars, ingressVars, sttVars, pageVars>>

(* what a caller keys in before '*': a number that validates and one that *)
(* does not, digit by digit                                               *)
KeyedEntries == {<<1, 1, 1, 1, 1, 1, 1, 1, 1, 6>>, <<1, 1, 1, 1, 1, 1, 1, 1, 1, 1>>}

DigitKeys == {1, 6}

(* dtmfBuffer.get(callId) once the missing entry has been set to [] *)
BufferOf(id) == IF dtmfBuffer[id] = NoBuffer THEN <<>> ELSE dtmfBuffer[id]

(* the rest of a '*' or '#' handler from its buffer.length = 0 on, which *)
(* empties the array the handler took from the Map; the user_activity    *)
(* evaluate and the 200 response change nothing here                     *)
ClearAndEnd(k) ==
  /\ dtmfBuffer' = IF dh[k].att THEN [dtmfBuffer EXCEPT ![dh[k].id] = <<>>] ELSE dtmfBuffer
  /\ dh' = [dh EXCEPT ![k].pc = "done", ![k].att = FALSE, ![k].had = 0]

(* a digit other than '*' and '#', whenever it arrives: buffer.push *)
NotifyDigit(id, d) ==
  /\ CallExists(id)
  /\ \E e \in KeyedEntries :
       /\ Len(BufferOf(id)) < Len(e)
       /\ Append(BufferOf(id), d) = SubSeq(e, 1, Len(BufferOf(id)) + 1)
  /\ dtmfBuffer' = [dtmfBuffer EXCEPT ![id] = Append(BufferOf(id), d)]
  /\ UNCHANGED <<processedWebhooks, activeBridges, browser, page, hpc, hid, iter, resp,
                 ttl, poller, fallback, hangup, dh>>
  /\ UNCHANGED <<poolVars, ctx, unitVars>>

(* '*': the last 12 digits are validated; with an identity the request to *)
(* the identify API is awaited, without one the buffer is cleared at once *)
NotifyStar(k, id) ==
  /\ dh[k].pc = "idle"
  /\ \A j \in DtmfSlots : j < k => dh[j].pc # "idle"
  /\ CallExists(id)
  /\ IF validateSwedishSSN(Last(BufferOf(id), 12)) # NoSsn
       THEN /\ dtmfBuffer' = [dtmfBuffer EXCEPT ![id] = BufferOf(id)]
            /\ dh' = [dh EXCEPT ![k] = [pc |-> "fetching", id |-> id, key |-> "*",
                                        att |-> TRUE, had |-> Len(BufferOf(id))]]
       ELSE /\ dtmfBuffer' = [dtmfBuffer EXCEPT ![id] = <<>>]
            /\ dh' = [dh EXCEPT ![k] = [pc |-> "done", id |-> id, key |-> "*",
                                        att |-> FALSE, had |-> 0]]
  /\ UNCHANGED <<processedWebhooks, activeBridges, browser, page, hpc, hid, iter, resp,
                 ttl, poller, fallback, hangup>>
  /\ UNCHANGED <<poolVars, ctx, unitVars>>

(* '#': the request to the route API is awaited *)
NotifyHash(k, id) ==
  /\ dh[k].pc = "idle"
  /\ \A j \in DtmfSlots : j < k => dh[j].pc # "idle"
  /\ CallExists(id)
  /\ dtmfBuffer' = [dtmfBuffer EXCEPT ![id] = BufferOf(id)]
  /\ dh' = [dh EXCEPT ![k] = [pc |-> "fetching", id |-> id, key |-> "#", att |-> TRUE,
                              had |-> Len(BufferOf(id))]]
  /\ UNCHANGED <<processedWebhooks, activeBridges, browser, page, hpc, hid, iter, resp,
                 ttl, poller, fallback, hangup>>
  /\ UNCHANGED <<poolVars, ctx, unitVars>>

(* fetch resolved: response.text() is awaited *)
FetchDone(k) ==
  /\ dh[k].pc = "fetching"
  /\ dh' = [dh EXCEPT ![k].pc = "reading"]
  /\ UNCHANGED <<processedWebhooks, activeBridges, browser, page, dtmfBuffer, hpc, hid,
                 iter, resp, ttl, poller, fallback, hangup>>
  /\ UNCHANGED <<poolVars, ctx, unitVars>>

(* fetch rejected: the catch logs, the buffer is cleared *)
FetchFail(k) ==
  /\ dh[k].pc = "fetching"
  /\ ClearAndEnd(k)
  /\ UNCHANGED <<processedWebhooks, activeBridges, browser, page, hpc, hid, iter, resp,
                 ttl, poller, fallback, hangup>>
  /\ UNCHANGED <<poolVars, ctx, unitVars>>

(* response.text() resolved: with an entry for the call the contextual   *)
(* update is evaluated in its page, without one the buffer is cleared    *)
TextDone(k) ==
  /\ dh[k].pc = "reading"
  /\ IF HasBridge(dh[k].id)
       THEN /\ dh' = [dh EXCEPT ![k].pc = "updating"]
            /\ UNCHANGED dtmfBuffer
       ELSE ClearAndEnd(k)
  /\ UNCHANGED <<processedWebhooks, activeBridges, browser, page, hpc, hid, iter, resp,
                 ttl, poller, fallback, hangup>>
  /\ UNCHANGED <<poolVars, ctx, unitVars>>

(* response.text() rejected: the catch logs, the buffer is cleared *)
TextFail(k) ==
  /\ dh[k].pc = "reading"
  /\ ClearAndEnd(k)
  /\ UNCHANGED <<processedWebhooks, activeBridges, browser, page, hpc, hid, iter, resp,
                 ttl, poller, fallback, hangup>>
  /\ UNCHANGED <<poolVars, ctx, unitVars>>

(* the contextual-update evaluate resolved, or rejected on a closed page *)
(* and was caught: the buffer is cleared                                 *)
UpdateSettled(k) ==
  /\ dh[k].pc = "updating"
  /\ ClearAndEnd(k)
  /\ UNCHANGED <<processedWebhooks, activeBridges, browser, page, hpc, hid, iter, resp,
                 ttl, poller, fallback, hangup>>
  /\ UNCHANGED <<poolVars, ctx, unitVars>>

(* one call and every DTMF event the platform can send for it *)
DtmfNext ==
  \/ \E id \in CallIds : Arrive(1, id)
  \/ \E h \in Handlers : LaunchDone(h)
  \/ \E h \in Handlers : NewPageDone(h)
  \/ \E h \in Handlers : GotoDone(h)
  \/ \E h \in Handlers : LaunchFail(h)
  \/ \E h \in Handlers : NewPageFail(h)
  \/ \E h \in Handlers : GotoFail(h)
  \/ \E h \in Handlers : TTLFire(h)
  \/ \E h \in Handlers : PollerTick(h)
  \/ \E h \in Handlers : PollerClosed(h)
  \/ \E h \in Handlers : FallbackFire(h)
  \/ \E h \in Handlers : FallbackClosed(h)
  \/ \E id \in CallIds : NotifyHangup(id)
  \/ \E id \in CallIds : HangupEvaluated(id)
  \/ \E h \in Handlers : PageGone(h)
  \/ \E id \in CallIds, d \in DigitKeys : NotifyDigit(id, d)
  \/ \E k \in DtmfSlots, id \in CallIds : NotifyStar(k, id)
  \/ \E k \in DtmfSlots, id \in CallIds : NotifyHash(k, id)
  \/ \E k \in DtmfSlots : FetchDone(k)
  \/ \E k \in DtmfSlots : FetchFail(k)
  \/ \E k \in DtmfSlots : TextDone(k)
  \/ \E k \in DtmfSlots : TextFail(k)
  \/ \E k \in DtmfSlots : UpdateSettled(k)

(* ------------------------ handleContextUpdate -------------------------- *)

(* req.on('end') of handleContextUpdate up to its await: a body that does *)
(* not parse is answered 400, a call id without an entry 404; else the    *)
(* evaluate in the call's page is awaited                                 *)
ContextArrive(id, u) ==
  /\ ctx.pc = "idle"
  /\ ctx' = IF u = Malformed
              THEN [NoContext EXCEPT !.pc = "done", !.id = id, !.status = 400]
              ELSE IF ~HasBridge(id)
                     THEN [NoContext EXCEPT !.pc = "done", !.id = id, !.update = u,
                                            !.status = 404]
                     ELSE [NoContext EXCEPT !.pc = "evaluating", !.id = id, !.update = u,
                                            !.page = BridgeOf(id).page]
  /\ UNCHANGED <<processedWebhooks, activeBridges, browser, page, dtmfBuffer, hpc, hid,
                 iter, resp, ttl, poller, fallback, hangup, dh>>
  /\ UNCHANGED <<poolVars, unitVars>>

(* the evaluate settled: in an open page the function sends the update    *)
(* when the bridge has a socket that is OPEN and returns false otherwise, *)
(* the handler drops the returned value and answers 200; on a closed      *)
(* page the evaluate rejects and the catch answers 400                    *)
ContextEvaluated ==
  /\ ctx.pc = "evaluating"
  /\ ctx' = IF page[ctx.page].st = "open"
              THEN [ctx EXCEPT !.pc = "done", !.status = 200,
                               !.sent = IF page[ctx.page].ws THEN ctx.update ELSE NoUpdate]
              ELSE [ctx EXCEPT !.pc = "done", !.status = 400]
  /\ UNCHANGED <<processedWebhooks, activeBridges, browser, page, dtmfBuffer, hpc, hid,
                 iter, resp, ttl, poller, fallback, hangup, dh>>
  /\ UNCHANGED <<poolVars, unitVars>>

(* the number of agent audio messages a run lets a relay socket deliver *)
MaxAudio == 1

(* ws.onmessage with an 'audio' message: handleAgentMessage decodes the   *)
(* chunk and hands it to virtualAudioSource.addAudioData, which pushes a  *)
(* buffer on the queue; the browser dispatches message events of an open  *)
(* socket only (audio counts the buffers the page's sink was given)       *)
AgentAudio(h) ==
  /\ page[h].st = "open"
  /\ page[h].ws
  /\ page[h].audio < MaxAudio
  /\ page' = [page EXCEPT ![h].audio = @ + 1]
  /\ UNCHANGED <<processedWebhooks, activeBridges, browser, dtmfBuffer, hpc, hid, iter,
                 resp, ttl, poller, fallback, hangup>>
  /\ UNCHANGED <<poolVars, dh, ctx, unitVars>>

SessionSteps ==
  \/ \E h \in Handlers : CloseOldDone(h)
  \/ \E h \in Handlers : LaunchDone(h)
  \/ \E h \in Handlers : NewPageDone(h)
  \/ \E h \in Handlers : GotoDone(h)
  \/ \E h \in Handlers : LaunchFail(h)
  \/ \E h \in Handlers : NewPageFail(h)
  \/ \E h \in Handlers : GotoFail(h)
  \/ \E h \in Handlers : TTLFire(h)
  \/ \E h \in Handlers : PollerTick(h)
  \/ \E h \in Handlers : PollerClosed(h)
  \/ \E h \in Handlers : FallbackFire(h)
  \/ \E h \in Handlers : FallbackClosed(h)
  \/ \E id \in CallIds : NotifyHangup(id)
  \/ \E id \in CallIds : HangupEvaluated(id)
  \/ \E h \in Handlers : PageGone(h)

SessionNext ==
  \/ \E h \in 1 .. NumHandlers, id \in CallIds : Arrive(h, id)
  \/ SessionSteps

MalformedNext ==
  \/ SessionNext
  \/ \E h \in 1 .. NumHandlers, b \in BadBodies : ArriveMalformed(h, b)

ContextNext ==
  \/ SessionNext
  \/ \E id \in CallIds, u \in Updates \cup {Malformed} : ContextArrive(id, u)
  \/ ContextEvaluated

RelayNext ==
  \/ SessionNext
  \/ \E h \in 1 .. NumHandlers : AgentAudio(h)

IngressNext ==
  \/ \E h \in Handlers, id \in CallIds : Arrive(h, id)
  \/ SessionSteps
  \/ \E id \in CallIds, d \in PlainDigits : NotifyDtmf(id, d)

(* --------------------------- soniox-stt.js ----------------------------- *)

(* the pieces of text a run takes from the engine's final tokens *)
MaxText == 3

EndMarker == "<end>"

(* the {text, is_final} tokens the engine sends *)
Tokens == {[text |-> "Hello", is_final |-> FALSE], [text |-> "Hello", is_final |-> TRUE],
           [text |-> "world", is_final |-> TRUE], [text |-> " ", is_final |-> TRUE],
           [text |-> EndMarker, is_final |-> TRUE]}

(* message.tokens: no token, one token, two tokens *)
Batches == {<<>>} \cup {<<t>> : t \in Tokens} \cup {<<t, u>> : t, u \in Tokens}

(* the for loop of handleMessage: the texts of the final (fin) or of the *)
(* non-final tokens, the end marker skipped, joined in order             *)
RECURSIVE TextOf(_, _)
TextOf(tokens, fin) ==
  IF tokens = <<>>
    THEN <<>>
    ELSE (IF Head(tokens).text # EndMarker /\ Head(tokens).is_final = fin
            THEN <<Head(tokens).text>>
            ELSE <<>>) \o TextOf(Tail(tokens), fin)

HasEndpoint(tokens) == \E i \in 1 .. Len(tokens) : tokens[i].text = EndMarker

(* String.prototype.trim *)
RECURSIVE Trim(_)
Trim(t) ==
  IF t = <<>> THEN t
  ELSE IF Head(t) = " " THEN Trim(Tail(t))
  ELSE IF t[Len(t)] = " " THEN Trim(SubSeq(t, 1, Len(t) - 1))
  ELSE t

(* the pieces of the texts onTranscript was called with *)
RECURSIVE Pieces(_)
Pieces(ts) == IF ts = <<>> THEN 0 ELSE Len(Head(ts)) + Pieces(Tail(ts))

(* this.currentTranscript += finalText *)
AddFinalOverwrite(cur, finalText) == IF finalText = <<>> THEN cur ELSE finalText

AddFinal(cur, finalText) == cur \o finalText

(* the constructor *)
SttInit ==
  /\ currentTranscript = <<>>
  /\ partialTranscript = <<>>
  /\ transcripts = <<>>
  /\ sttWs = "none"
  /\ finalizeSent = FALSE

(* connect(): the socket opened *)
SttConnect ==
  /\ sttWs = "none"
  /\ sttWs' = "open"
  /\ UNCHANGED <<currentTranscript, partialTranscript, transcripts, finalizeSent>>
  /\ UNCHANGED <<poolVars, ingressVars, ssnVars, pageVars>>

(* ws.onmessage -> handleMessage with a message that has tokens *)
HandleMessage(tokens) ==
  /\ sttWs \in {"open", "closing", "stopped"}
  /\ LET total == AddFinal(currentTranscript, TextOf(tokens, TRUE)) IN
     /\ Len(total) + Pieces(transcripts) <= MaxText
     /\ IF HasEndpoint(tokens) /\ Trim(total) # <<>>
          THEN /\ transcripts' = Append(transcripts, Trim(total))
               /\ currentTranscript' = <<>>
               /\ partialTranscript' = <<>>
          ELSE /\ currentTranscript' = total
               /\ partialTranscript' = TextOf(tokens, FALSE)
               /\ UNCHANGED transcripts
  /\ UNCHANGED <<sttWs, finalizeSent>>
  /\ UNCHANGED <<poolVars, ingressVars, ssnVars, pageVars>>

(* finalize(): a message to the engine when the socket is open, nothing else *)
Finalize ==
  /\ finalizeSent' = (finalizeSent \/ sttWs = "open")
  /\ UNCHANGED <<currentTranscript, partialTranscript, transcripts, sttWs>>
  /\ UNCHANGED <<poolVars, ingressVars, ssnVars, pageVars>>

(* stop() up to its await: the socket is closed and this.ws set to null *)
SttStop ==
  /\ sttWs = "open"
  /\ sttWs' = "closing"
  /\ UNCHANGED <<currentTranscript, partialTranscript, transcripts, finalizeSent>>
  /\ UNCHANGED <<poolVars, ingressVars, ssnVars, pageVars>>

(* stop() after audioContext.close() resolved: both texts are reset *)
SttStopped ==
  /\ sttWs \in {"closing", "awaiting"}
  /\ sttWs' = IF sttWs = "closing" THEN "stopped" ELSE "none"
  /\ currentTranscript' = <<>>
  /\ partialTranscript' = <<>>
  /\ UNCHANGED <<transcripts, finalizeSent>>
  /\ UNCHANGED <<poolVars, ingressVars, ssnVars, pageVars>>

(* ws.onclose of the socket stop() closed: the closing handshake is over *)
(* and the socket delivers no further message                           *)
SttClosed ==
  /\ sttWs \in {"closing", "stopped"}
  /\ sttWs' = IF sttWs = "closing" THEN "awaiting" ELSE "none"
  /\ UNCHANGED <<currentTranscript, partialTranscript, transcripts, finalizeSent>>
  /\ UNCHANGED <<poolVars, ingressVars, ssnVars, pageVars>>

SttNext ==
  \/ SttConnect
  \/ \E tokens \in Batches : HandleMessage(tokens)
  \/ Finalize
  \/ SttStop
  \/ SttStopped
  \/ SttClosed

(* ------------------- VirtualAudioSource (the sink) --------------------- *)

(* the agent frames and the interruptions of a run *)
MaxFrames == 4
MaxClears == 2

(* addSilence(50) in clearBuffer *)
SinkSilenceMs == 50

AgentFrame(k) == [kind |-> "agent", n |-> k]

SilenceFrame(ms) == [kind |-> "silence", n |-> ms]

(* a source node sounds from start() until it is stopped or its buffer    *)
(* has run out; its ended event is dispatched once, afterwards            *)
Sounding(ns) == {s \in 1 .. Len(ns) : ns[s].st = "playing"}

(* the constructor *)
SinkInit ==
  /\ audioQueue = <<>>
  /\ isPlaying = FALSE
  /\ currentSource = None
  /\ nodes = <<>>
  /\ sinkLog = [enqueued |-> 0, clears |-> 0, dropped |-> {}, clearAt |-> None,
                clearNode |-> None]

(* playNextBuffer() on the queue q, the nodes ns and this.currentSource cs: *)
(* an empty queue ends the playback, otherwise the first buffer is shifted *)
(* off, a new source node made for it, kept in currentSource and started   *)
playNextBuffer(q, ns, cs) ==
  IF q = <<>>
    THEN /\ isPlaying' = FALSE
         /\ audioQueue' = q
         /\ nodes' = ns
         /\ currentSource' = cs
    ELSE /\ isPlaying' = TRUE
         /\ audioQueue' = Tail(q)
         /\ nodes' = Append(ns, [buffer |-> Head(q), st |-> "playing"])
         /\ currentSource' = Len(ns) + 1

(* the push of addAudioData and of addSilence, and the start of playback *)
(* when nothing is playing                                               *)
Enqueue(frame, q, ns, cs, playing) ==
  IF playing
    THEN /\ audioQueue' = Append(q, frame)
         /\ isPlaying' = playing
         /\ nodes' = ns
         /\ currentSource' = cs
    ELSE playNextBuffer(Append(q, frame), ns, cs)

(* addAudioData(pcmData): the frames are numbered as they are enqueued *)
addAudioData ==
  /\ sinkLog.enqueued < MaxFrames
  /\ Enqueue(AgentFrame(sinkLog.enqueued + 1), audioQueue, nodes, currentSource, isPlaying)
  /\ sinkLog' = [sinkLog EXCEPT !.enqueued = @ + 1]

(* source.onended of node s, after the buffer ran out or after stop(0) *)
OnEnded(s) ==
  /\ s \in 1 .. Len(nodes)
  /\ nodes[s].st \in {"playing", "stopped"}
  /\ playNextBuffer(audioQueue, [nodes EXCEPT ![s].st = "ended"], None)
  /\ UNCHANGED sinkLog

(* clearBuffer(): the current source is stopped and forgotten, the queue *)
(* emptied, isPlaying reset, and addSilence(50) starts a silence frame   *)
clearBuffer ==
  /\ sinkLog.clears < MaxClears
  /\ LET ns == IF currentSource # None /\ nodes[currentSource].st = "playing"
                 THEN [nodes EXCEPT ![currentSource].st = "stopped"]
                 ELSE nodes
     IN /\ Enqueue(SilenceFrame(SinkSilenceMs), <<>>, ns, None, FALSE)
        /\ sinkLog' = [sinkLog EXCEPT
                         !.clears = @ + 1,
                         !.dropped = @ \cup {audioQueue[i] : i \in 1 .. Len(audioQueue)},
                         !.clearAt = sinkLog.enqueued,
                         !.clearNode = Len(nodes) + 1]

(* everything but the sink *)
sinkRest == <<poolVars, ingressVars, ssnVars, sttVars, sonioxVars, bridgeVars, chkVars,
             capVars>>

SinkNext ==
  \/ addAudioData /\ UNCHANGED sinkRest
  \/ \E s \in 1 .. (MaxFrames + MaxClears) : OnEnded(s) /\ UNCHANGED sinkRest
  \/ clearBuffer /\ UNCHANGED sinkRest

(* --------------- soniox-stt.js: initialize() to stop() ----------------- *)

(* the delays of connectWebSocket's setTimeout and of startKeepalive's     *)
(* setInterval, and the silence after which a keepalive is due             *)
ConnectTimeoutMs == 10000
KeepaliveEveryMs == 10000
SilenceThresholdMs == 5000

(* the clock moves in steps of the silence threshold, this many times *)
MaxClock == 5

ClockStepMs == SilenceThresholdMs

(* the constructor: lastAudioTime = Date.now(), which is 0 on this clock *)
SonioxInit ==
  /\ now = 0
  /\ stt = [init |-> "new", stop |-> "no", ws |-> "none", wsRef |-> FALSE,
            opened |-> FALSE, promise |-> "none", timer |-> "off", timerAt |-> 0,
            isActive |-> FALSE, audioProcessor |-> FALSE, keepaliveInterval |-> FALSE,
            nextTick |-> 0, lastAudioTime |-> 0]
  /\ sttLog = [status |-> <<>>, errors |-> 0, config |-> 0, lastChunk |-> None,
               keepalives |-> 0, ticks |-> 0]

(* a timer whose time has come runs before the clock moves on *)
TimerDue ==
  \/ stt.timer = "armed" /\ stt.timerAt <= now
  \/ stt.keepaliveInterval /\ stt.nextTick <= now

ClockTick ==
  /\ now < MaxClock * ClockStepMs
  /\ ~TimerDue
  /\ now' = now + ClockStepMs
  /\ UNCHANGED <<stt, sttLog>>

(* initialize() up to its await: status 'initializing', and connectWebSocket *)
(* creates the socket and arms the 10 s timer                                *)
SttInitialize ==
  /\ stt.init = "new"
  /\ stt.stop = "no"
  /\ stt' = [stt EXCEPT !.init = "connecting", !.ws = "connecting", !.wsRef = TRUE,
                        !.promise = "pending", !.timer = "armed",
                        !.timerAt = now + ConnectTimeoutMs]
  /\ sttLog' = [sttLog EXCEPT !.status = Append(@, "initializing")]
  /\ UNCHANGED now

(* resolve() and reject() settle a pending promise and do nothing to a *)
(* settled one                                                         *)
RejectAnyway(p) == "rejected"

Reject(p) == IF p = "pending" THEN "rejected" ELSE p

(* the catch of initialize once connectWebSocket rejected: status 'error', *)
(* onError, and the error thrown on                                        *)
InitializeFailed(s, l) ==
  /\ stt' = [s EXCEPT !.init = "failed"]
  /\ sttLog' = [l EXCEPT !.status = Append(@, "error"), !.errors = @ + 1]

(* ws.onopen: the config is sent and the promise resolved; initialize then *)
(* goes on: startAudioProcessing, isActive, status 'connected' and         *)
(* startKeepalive                                                          *)
WsOpen ==
  /\ stt.ws = "connecting"
  /\ IF stt.promise = "pending"
       THEN /\ stt' = [stt EXCEPT !.ws = "open", !.opened = TRUE, !.promise = "resolved",
                                  !.init = "done", !.audioProcessor = TRUE,
                                  !.isActive = TRUE, !.keepaliveInterval = TRUE,
                                  !.nextTick = now + KeepaliveEveryMs]
            /\ sttLog' = [sttLog EXCEPT !.config = @ + 1,
                                        !.status = Append(@, "connected")]
       ELSE /\ stt' = [stt EXCEPT !.ws = "open", !.opened = TRUE]
            /\ sttLog' = [sttLog EXCEPT !.config = @ + 1]
  /\ UNCHANGED now

(* ws.onerror: onError, and reject *)
WsError ==
  /\ stt.ws \in {"connecting", "open"} \/ (stt.ws = "closing" /\ ~stt.opened)
  /\ LET s == [stt EXCEPT !.ws = "errored", !.promise = Reject(@)]
         l == [sttLog EXCEPT !.errors = @ + 1]
     IN IF s.promise # stt.promise
          THEN InitializeFailed(s, l)
          ELSE stt' = s /\ sttLog' = l
  /\ UNCHANGED now

(* ws.onclose: status 'disconnected' *)
WsClose ==
  /\ stt.ws \in {"open", "closing", "errored"}
  /\ stt' = [stt EXCEPT !.ws = "closed"]
  /\ sttLog' = [sttLog EXCEPT !.status = Append(@, "disconnected")]
  /\ UNCHANGED now

(* the callback of the 10 s timer: reject(new Error('Connection timeout')) *)
ConnectTimeout ==
  /\ stt.timer = "armed"
  /\ stt.timerAt <= now
  /\ LET s == [stt EXCEPT !.timer = "fired", !.promise = Reject(@)]
     IN IF s.promise # stt.promise
          THEN InitializeFailed(s, sttLog)
          ELSE stt' = s /\ UNCHANGED sttLog
  /\ UNCHANGED now

(* onaudioprocess: nothing unless active with an open socket; otherwise the *)
(* 4096 samples are buffered and the complete chunks of 1600 sent (the      *)
(* samples left in audioBuffer are not kept here)                           *)
AudioProcess ==
  /\ stt.audioProcessor
  /\ IF stt.isActive /\ stt.wsRef /\ stt.ws = "open"
       THEN sttLog' = [sttLog EXCEPT !.lastChunk = now]
       ELSE UNCHANGED sttLog
  /\ UNCHANGED <<stt, now>>

(* the setInterval callback of startKeepalive *)
KeepaliveTick ==
  /\ stt.keepaliveInterval
  /\ stt.nextTick <= now
  /\ stt' = [stt EXCEPT !.nextTick = @ + KeepaliveEveryMs]
  /\ sttLog' = [sttLog EXCEPT
                  !.ticks = @ + 1,
                  !.keepalives = IF stt.wsRef /\ stt.ws = "open"
                                      /\ now - stt.lastAudioTime > SilenceThresholdMs
                                   THEN @ + 1 ELSE @]
  /\ UNCHANGED now

(* stop() up to its await: isActive reset, the interval cleared, the *)
(* processor disconnected, the socket closed and forgotten           *)
SonioxStop ==
  /\ stt.stop = "no"
  /\ stt.init # "new"
  /\ stt' = [stt EXCEPT !.stop = "closing", !.isActive = FALSE,
                        !.keepaliveInterval = FALSE, !.audioProcessor = FALSE,
                        !.wsRef = FALSE,
                        !.ws = IF stt.wsRef /\ @ \in {"connecting", "open"}
                                 THEN "closing" ELSE @]
  /\ UNCHANGED <<sttLog, now>>

(* stop() after audioContext.close(): status 'stopped' *)
SonioxStopped ==
  /\ stt.stop = "closing"
  /\ stt' = [stt EXCEPT !.stop = "done"]
  /\ sttLog' = [sttLog EXCEPT !.status = Append(@, "stopped")]
  /\ UNCHANGED now

(* everything but the SonioxSTT instance *)
sonioxRest == <<poolVars, ingressVars, ssnVars, sttVars, sinkVars, bridgeVars, chkVars,
               capVars>>

SonioxNext ==
  \/ ClockTick /\ UNCHANGED sonioxRest
  \/ SttInitialize /\ UNCHANGED sonioxRest
  \/ WsOpen /\ UNCHANGED sonioxRest
  \/ WsError /\ UNCHANGED sonioxRest
  \/ WsClose /\ UNCHANGED sonioxRest
  \/ ConnectTimeout /\ UNCHANGED sonioxRest
  \/ AudioProcess /\ UNCHANGED sonioxRest
  \/ KeepaliveTick /\ UNCHANGED sonioxRest
  \/ SonioxStop /\ UNCHANGED sonioxRest
  \/ SonioxStopped /\ UNCHANGED sonioxRest

(* ------------------------ elevenlabs-bridge.js ------------------------- *)

(* the messages a run lets the service deliver, and the calls of *)
(* sendAudioToAgent and sendTextMessage it makes                 *)
MaxMessages == 3
MaxSends == 1

(* initialize() connects to the public URL and, when that fails, to the *)
(* signed one: each connectToAgent makes a WebSocket of its own         *)
Socks == {"public", "signed"}

NoSock == "null"

(* the close code of an expected close, and the ones the run draws from *)
NormalClosure == 1000

CloseCodes == {NormalClosure, 1005, 1006}

NoClose == [wasClean |-> TRUE, code |-> 0]

NewSock == [st |-> "none", promise |-> "none", closes |-> 0, ev |-> NoClose]

(* what the service sends: message.type and, for a ping, *)
(* message.ping_event.event_id                            *)
EventIds == {1, 2}

AgentMessages ==
  {[type |-> t, id |-> 0] : t \in {"conversation_initiation_metadata",
                                   "conversation_initiation_client_data_received",
                                   "audio", "interruption"}}
    \cup {[type |-> "ping", id |-> e] : e \in EventIds}

(* the texts sendTextMessage is given: '', ' ', ' hi' and 'hi' *)
Texts == {<<>>, <<" ">>, <<" ", "hi">>, <<"hi">>}

(* a message as ws.send was given it: the socket, the kind, the event id *)
(* or the number of the sendTextMessage call, and the text               *)
Sent(k, type, ref, text) == [on |-> k, type |-> type, ref |-> ref, text |-> text]

(* the constructor *)
BridgeInit ==
  /\ el = [init |-> "new", ws |-> NoSock, conversationReady |-> FALSE,
           isActive |-> FALSE, end |-> "no"]
  /\ sock = [k \in Socks |-> NewSock]
  /\ wire = <<>>
  /\ elLog = [status |-> <<>>, handled |-> 0, sends |-> 0, timers |-> <<>>]

(* this.ws && this.ws.readyState === WebSocket.OPEN *)
WsIsOpen == el.ws # NoSock /\ sock[el.ws].st = "open"

(* connectToAgent(url): a new socket in this.ws and a pending promise *)
Connect(k, e, sk) ==
  /\ el' = [e EXCEPT !.ws = k, !.init = k]
  /\ sock' = [sk EXCEPT ![k] = [st |-> "connecting", promise |-> "pending",
                                closes |-> 0, ev |-> NoClose]]

(* initialize(): status 'initializing', then the public connection *)
ElInitialize ==
  /\ el.init = "new"
  /\ el.end = "no"
  /\ Connect("public", el, sock)
  /\ elLog' = [elLog EXCEPT !.status = Append(@, "initializing")]
  /\ UNCHANGED wire

(* what initialize does once the promise of socket k was rejected: after *)
(* the public attempt getSignedUrl is awaited, after the signed one the  *)
(* catch reports 'error' and throws                                      *)
Rejected(k, e, sk, l) ==
  /\ sock' = sk
  /\ IF k = "public"
       THEN el' = [e EXCEPT !.init = "signing"] /\ elLog' = l
       ELSE /\ el' = [e EXCEPT !.init = "failed"]
            /\ elLog' = [l EXCEPT !.status = Append(@, "error")]

(* ws.onopen: status 'websocket_connected' and resolve(); initialize then *)
(* sets isActive and reports 'connected'                                  *)
OnOpen(k) ==
  /\ sock[k].st = "connecting"
  /\ IF sock[k].promise = "pending"
       THEN /\ sock' = [sock EXCEPT ![k].st = "open", ![k].promise = "resolved"]
            /\ el' = [el EXCEPT !.init = "done", !.isActive = TRUE]
            /\ elLog' = [elLog EXCEPT
                           !.status = @ \o <<"websocket_connected", "connected">>]
       ELSE /\ sock' = [sock EXCEPT ![k].st = "open"]
            /\ elLog' = [elLog EXCEPT !.status = Append(@, "websocket_connected")]
            /\ UNCHANGED el
  /\ UNCHANGED wire

(* ws.onerror: reject(error) *)
OnError(k) ==
  /\ sock[k].st \in {"connecting", "open"}
  /\ LET sk == [sock EXCEPT ![k].st = "errored", ![k].promise = Reject(@)]
     IN IF sock[k].promise = "pending"
          THEN Rejected(k, el, sk, elLog)
          ELSE sock' = sk /\ UNCHANGED <<el, elLog>>
  /\ UNCHANGED wire

(* the callback of the 10 s timer of connectToAgent: reject(), which *)
(* changes nothing once the promise is settled                       *)
OnTimeout(k) ==
  /\ sock[k].promise = "pending"
  /\ Rejected(k, el, [sock EXCEPT ![k].promise = Reject(@)], elLog)
  /\ UNCHANGED wire

(* getSignedUrl resolved: the signed connection *)
SignedUrlDone ==
  /\ el.init = "signing"
  /\ Connect("signed", el, sock)
  /\ UNCHANGED <<wire, elLog>>

(* getSignedUrl rejected: the catch reports 'error' and throws *)
SignedUrlFail ==
  /\ el.init = "signing"
  /\ el' = [el EXCEPT !.init = "failed"]
  /\ elLog' = [elLog EXCEPT !.status = Append(@, "error")]
  /\ UNCHANGED <<sock, wire>>

(* !event.wasClean || event.code !== 1000 *)
UnexpectedBoth(wasClean, code) == ~wasClean /\ code # NormalClosure

Unexpected(wasClean, code) == ~wasClean \/ code # NormalClosure

(* ws.onclose: 'disconnected', and 'error_disconnect' for a close that is *)
(* not clean or whose code is not 1000                                    *)
OnClose(k, wasClean, code) ==
  /\ sock[k].st \in {"open", "closing", "errored"}
  /\ sock' = [sock EXCEPT ![k].st = "closed", ![k].closes = @ + 1,
                          ![k].ev = [wasClean |-> wasClean, code |-> code]]
  /\ elLog' = [elLog EXCEPT
                 !.status = @ \o <<"disconnected">>
                              \o (IF Unexpected(wasClean, code)
                                    THEN <<"error_disconnect">> ELSE <<>>)]
  /\ UNCHANGED <<el, wire>>

(* the pong of a ping: event_id is message.ping_event?.event_id *)
PongWithoutId(k, id) == Sent(k, "pong", 0, <<>>)

Pong(k, id) == Sent(k, "pong", id, <<>>)

(* this.ws.send(x) in a handler: sent on an open socket, dropped by a    *)
(* closing or closed one; on a connecting socket and on null it throws,  *)
(* and the catch of handleAgentMessage logs it                           *)
WsSend(w, x) == IF WsIsOpen THEN Append(w, x) ELSE w

(* ws.onmessage of socket k -> handleAgentMessage: message events are   *)
(* dispatched on an open socket only. The sink is told of 'audio' alone *)
HandleAgentMessage(k, m) ==
  /\ sock[k].st = "open"
  /\ elLog.handled < MaxMessages
  /\ elLog' = [elLog EXCEPT !.handled = @ + 1,
                 !.status = IF m.type \in {"conversation_initiation_client_data_received",
                                           "ping"} /\ ~el.conversationReady
                              THEN Append(@, "conversation_ready") ELSE @]
  /\ el' = [el EXCEPT !.conversationReady =
              @ \/ m.type \in {"conversation_initiation_client_data_received", "ping"}]
  /\ wire' = CASE m.type = "conversation_initiation_metadata" ->
                    WsSend(wire, Sent(el.ws, "conversation_initiation_client_data", 0, <<>>))
               [] m.type = "ping" -> WsSend(wire, Pong(el.ws, m.id))
               [] OTHER -> wire
  /\ IF m.type = "audio"
       THEN addAudioData
       ELSE UNCHANGED sinkVars
  /\ UNCHANGED sock

(* sendAudioToAgent(pcmData) with the samples of one onaudioprocess: *)
(* nothing unless the socket is open and the conversation ready      *)
SendAudioToAgent ==
  /\ elLog.sends < MaxSends
  /\ elLog' = [elLog EXCEPT !.sends = @ + 1]
  /\ wire' = IF WsIsOpen /\ el.conversationReady
               THEN Append(wire, Sent(el.ws, "user_audio_chunk", elLog.sends + 1, <<>>))
               ELSE wire
  /\ UNCHANGED <<el, sock>>

(* sendTextMessage(text): the three early returns; otherwise {text} is sent *)
(* and two timers are set, for the user_input and the user_message form     *)
SendTextMessage(text) ==
  /\ elLog.sends < MaxSends
  /\ LET c == elLog.sends + 1 IN
     IF WsIsOpen /\ el.conversationReady /\ text # <<>> /\ Trim(text) # <<>>
       THEN /\ wire' = Append(wire, Sent(el.ws, "text", c, Trim(text)))
            /\ elLog' = [elLog EXCEPT
                           !.sends = c,
                           !.timers = @ \o <<[type |-> "user_input", ref |-> c,
                                              text |-> Trim(text)],
                                             [type |-> "user_message", ref |-> c,
                                              text |-> Trim(text)]>>]
       ELSE /\ wire' = wire
            /\ elLog' = [elLog EXCEPT !.sends = c]
  /\ UNCHANGED <<el, sock>>

(* a setTimeout callback of sendTextMessage: sent when the socket is open *)
TextTimer ==
  /\ elLog.timers # <<>>
  /\ LET t == Head(elLog.timers) IN
       wire' = IF WsIsOpen THEN Append(wire, Sent(el.ws, t.type, t.ref, t.text)) ELSE wire
  /\ elLog' = [elLog EXCEPT !.timers = Tail(@)]
  /\ UNCHANGED <<el, sock>>

(* endSession() in text mode, where there is no audio context to await: *)
(* isActive reset, the socket closed and forgotten, 'ended' reported    *)
EndSession ==
  /\ el.end = "no"
  /\ el.init # "new"
  /\ el' = [el EXCEPT !.end = "done", !.isActive = FALSE, !.ws = NoSock]
  /\ sock' = IF el.ws # NoSock /\ sock[el.ws].st \in {"connecting", "open"}
               THEN [sock EXCEPT ![el.ws].st = "closing"]
               ELSE sock
  /\ elLog' = [elLog EXCEPT !.status = Append(@, "ended")]
  /\ UNCHANGED wire

(* everything but the bridge and its sink *)
bridgeRest == <<poolVars, ingressVars, ssnVars, sttVars, sonioxVars, chkVars, capVars>>

(* initialize(), the events of the two sockets and endSession() *)
ConnSteps ==
  \/ ElInitialize /\ UNCHANGED <<sinkVars, bridgeRest>>
  \/ \E k \in Socks : OnOpen(k) /\ UNCHANGED <<sinkVars, bridgeRest>>
  \/ \E k \in Socks : OnError(k) /\ UNCHANGED <<sinkVars, bridgeRest>>
  \/ \E k \in Socks : OnTimeout(k) /\ UNCHANGED <<sinkVars, bridgeRest>>
  \/ SignedUrlDone /\ UNCHANGED <<sinkVars, bridgeRest>>
  \/ SignedUrlFail /\ UNCHANGED <<sinkVars, bridgeRest>>
  \/ EndSession /\ UNCHANGED <<sinkVars, bridgeRest>>

(* the connections alone, closed with every close event *)
ConnNext ==
  \/ ConnSteps
  \/ \E k \in Socks, c \in BOOLEAN, n \in CloseCodes :
       OnClose(k, c, n) /\ UNCHANGED <<sinkVars, bridgeRest>>

(* the connections and the messages of the service; what a close event *)
(* carries matters to onclose alone                                    *)
HandshakeNext ==
  \/ ConnSteps
  \/ \E k \in Socks : OnClose(k, TRUE, NormalClosure) /\ UNCHANGED <<sinkVars, bridgeRest>>
  \/ \E k \in Socks, m \in AgentMessages : HandleAgentMessage(k, m) /\ UNCHANGED bridgeRest

(* the same with the caller's audio and text *)
BridgeNext ==
  \/ HandshakeNext
  \/ SendAudioToAgent /\ UNCHANGED <<sinkVars, bridgeRest>>
  \/ \E t \in Texts : SendTextMessage(t) /\ UNCHANGED <<sinkVars, bridgeRest>>
  \/ TextTimer /\ UNCHANGED <<sinkVars, bridgeRest>>

(* -------------------- isValidSwedishSSN on its own --------------------- *)

(* the calls of isValidSwedishSSN a run makes on one string *)
MaxCalls == 2

(* a character that is not a decimal digit ('-'), next to the digits 0 .. 9 *)
Dash == 10

(* YYMMDDXXX: a date that exists, months 13 and 00, days 32, 00 and 31 *)
ChkBodies == {<<8, 1, 1, 2, 2, 4, 1, 2, 3>>, <<8, 1, 1, 3, 2, 4, 1, 2, 3>>,
              <<8, 1, 0, 0, 2, 4, 1, 2, 3>>, <<8, 1, 1, 2, 3, 2, 1, 2, 3>>,
              <<8, 1, 1, 2, 0, 0, 1, 2, 3>>, <<8, 1, 1, 2, 3, 1, 1, 2, 3>>}

(* the strings given: 9, 10 and 11 digits with every last digit, and 10 *)
(* characters with a '-' among them                                     *)
ChkInputs ==
  ChkBodies
    \cup {b \o <<c>> : b \in ChkBodies, c \in 0 .. 9}
    \cup {b \o <<c, c>> : b \in ChkBodies, c \in 0 .. 9}
    \cup {[b EXCEPT ![7] = Dash] \o <<c>> : b \in ChkBodies, c \in 0 .. 9}

ChkInit == chkIn \in ChkInputs /\ chkOut = <<>>

(* isValidSwedishSSN(ssn10) *)
IsValidCall ==
  /\ Len(chkOut) < MaxCalls
  /\ chkOut' = Append(chkOut, isValidSwedishSSN(chkIn))
  /\ UNCHANGED <<chkIn, poolVars, ingressVars, ssnVars, sttVars, sinkVars, sonioxVars,
                 bridgeVars, capVars>>

(* ---------------- soniox-stt.js: the audio capture --------------------- *)

(* this.SAMPLES_PER_CHUNK, and the buffer size of createScriptProcessor *)
SAMPLES_PER_CHUNK == 1600
FrameSize == 4096

(* the onaudioprocess callbacks of a run *)
MaxCallbacks == 3

(* the sample values of the input, in thousandths: below -1, zero, an *)
(* eighth and a half                                                  *)
Levels == {-1500, 0, 125, 500}

(* float32ToPcm16 on one sample x (in thousandths): clamped to [-1, 1],  *)
(* scaled by 0x8000 below zero and by 0x7FFF otherwise, and the fraction *)
(* dropped by the Int16Array                                             *)
float32ToPcm16(x) ==
  LET s == IF x < -1000 THEN -1000 ELSE IF x > 1000 THEN 1000 ELSE x
  IN IF s < 0 THEN 0 - ((0 - s) * 32768) \div 1000
              ELSE (s * 32767) \div 1000

(* pcmData for the k-th callback with input of level x: sample i is the *)
(* ((k - 1) * FrameSize + i)-th sample the processor was given          *)
PcmData(k, x) ==
  [i \in 1 .. FrameSize |-> [at |-> (k - 1) * FrameSize + i, v |-> float32ToPcm16(x)]]

(* the constructor: audioBuffer = new Int16Array(0) *)
CapInit ==
  /\ audioBuffer = <<>>
  /\ cap = [isActive |-> FALSE, ws |-> "none", audioProcessor |-> FALSE, fired |-> 0]
  /\ chunks = <<>>
  /\ heard = <<>>

(* initialize() once connectWebSocket resolved: startAudioProcessing *)
(* makes the processor, then isActive = true                         *)
CapStart ==
  /\ cap.ws = "none"
  /\ ~cap.audioProcessor
  /\ cap.fired = 0
  /\ cap' = [cap EXCEPT !.ws = "open", !.audioProcessor = TRUE, !.isActive = TRUE]
  /\ UNCHANGED <<audioBuffer, chunks, heard>>

(* if instead of the while loop of onaudioprocess: one chunk at most *)
SendOneChunk(buf, out) ==
  IF Len(buf) >= SAMPLES_PER_CHUNK
    THEN [buf |-> SubSeq(buf, SAMPLES_PER_CHUNK + 1, Len(buf)),
          out |-> Append(out, SubSeq(buf, 1, SAMPLES_PER_CHUNK))]
    ELSE [buf |-> buf, out |-> out]

(* the while loop of onaudioprocess: as long as the buffer holds a whole *)
(* chunk, slice(0, SAMPLES_PER_CHUNK) is sent and the buffer becomes     *)
(* slice(SAMPLES_PER_CHUNK)                                              *)
RECURSIVE SendChunks(_, _)
SendChunks(buf, out) ==
  IF Len(buf) >= SAMPLES_PER_CHUNK
    THEN SendChunks(SubSeq(buf, SAMPLES_PER_CHUNK + 1, Len(buf)),
                    Append(out, SubSeq(buf, 1, SAMPLES_PER_CHUNK)))
    ELSE [buf |-> buf, out |-> out]

(* audioProcessor.onaudioprocess with an input buffer of level x: nothing *)
(* unless active with an open socket; otherwise the converted samples are *)
(* put behind audioBuffer and the whole chunks sent                       *)
onaudioprocess(x) ==
  /\ cap.audioProcessor
  /\ cap.fired < MaxCallbacks
  /\ cap' = [cap EXCEPT !.fired = @ + 1]
  /\ IF ~cap.isActive \/ cap.ws # "open"
       THEN UNCHANGED <<audioBuffer, chunks, heard>>
       ELSE LET pcmData == PcmData(cap.fired + 1, x)
                r == SendChunks(audioBuffer \o pcmData, chunks)
            IN /\ audioBuffer' = r.buf
               /\ chunks' = r.out
               /\ heard' = heard \o pcmData

(* ws.onclose while the session runs: the engine closed the socket *)
CapWsClose ==
  /\ cap.ws = "open"
  /\ cap' = [cap EXCEPT !.ws = "closed"]
  /\ UNCHANGED <<audioBuffer, chunks, heard>>

(* stop(): isActive reset, the processor disconnected and forgotten, the *)
(* socket closed and forgotten                                           *)
CapStop ==
  /\ cap.audioProcessor
  /\ cap' = [cap EXCEPT !.isActive = FALSE, !.audioProcessor = FALSE, !.ws = "gone"]
  /\ UNCHANGED <<audioBuffer, chunks, heard>>

(* everything but the capture *)
capRest == <<poolVars, ingressVars, ssnVars, sttVars, sinkVars, sonioxVars, bridgeVars,
             chkVars>>

CapNext ==
  \/ CapStart /\ UNCHANGED capRest
  \/ \E x \in Levels : onaudioprocess(x) /\ UNCHANGED capRest
  \/ CapWsClose /\ UNCHANGED capRest
  \/ CapStop /\ UNCHANGED capRest

(* ------------------------- specifications ------------------------------ *)

(* the pool server and the proxy server are two programs: a specification *)
(* runs one of them, and the variables of the other hold nothing          *)
NotRunning == <<>>

PoolOff ==
  /\ tabs = NotRunning /\ tabObj = NotRunning /\ pageSt = NotRunning
  /\ nextTabId = NotRunning /\ pc = NotRunning /\ held = NotRunning
  /\ snap = NotRunning /\ activeCalls = NotRunning /\ rel = NotRunning
  /\ hm = NotRunning

IngressOff ==
  /\ processedWebhooks = NotRunning /\ activeBridges = NotRunning
  /\ browser = NotRunning /\ page = NotRunning /\ dtmfBuffer = NotRunning
  /\ hpc = NotRunning /\ hid = NotRunning /\ iter = NotRunning
  /\ resp = NotRunning /\ ttl = NotRunning /\ poller = NotRunning
  /\ fallback = NotRunning /\ hangup = NotRunning /\ dh = NotRunning
  /\ ctx = NotRunning

SsnOff == ssnIn = NotRunning /\ ssnOut = NotRunning

SttOff ==
  /\ currentTranscript = NotRunning /\ partialTranscript = NotRunning
  /\ transcripts = NotRunning /\ sttWs = NotRunning /\ finalizeSent = NotRunning

SinkOff ==
  /\ audioQueue = NotRunning /\ isPlaying = NotRunning /\ currentSource = NotRunning
  /\ nodes = NotRunning /\ sinkLog = NotRunning

SonioxOff == stt = NotRunning /\ now = NotRunning /\ sttLog = NotRunning

BridgeOff == el = NotRunning /\ sock = NotRunning /\ wire = NotRunning /\ elLog = NotRunning

ChkOff == chkIn = NotRunning /\ chkOut = NotRunning

CapOff ==
  /\ audioBuffer = NotRunning /\ cap = NotRunning /\ chunks = NotRunning
  /\ heard = NotRunning

PageOff == SinkOff /\ SonioxOff /\ BridgeOff /\ ChkOff /\ CapOff

UnitOff == SsnOff /\ SttOff /\ PageOff

InitPool == PoolInit /\ IngressOff /\ UnitOff

InitIngress == IngressInit /\ PoolOff /\ UnitOff

InitSsn == SsnInit /\ PoolOff /\ IngressOff /\ SttOff /\ PageOff

InitStt == SttInit /\ PoolOff /\ IngressOff /\ SsnOff /\ PageOff

SpecPool == InitPool /\ [][PoolNext]_vars

SpecSession == InitIngress /\ [][SessionNext]_vars

SpecIngress == InitIngress /\ [][IngressNext]_vars

SpecRelay == InitIngress /\ [][RelayNext]_vars

SpecDtmf == InitIngress /\ [][DtmfNext]_vars

SpecMalformed == InitIngress /\ [][MalformedNext]_vars

SpecContext == InitIngress /\ [][ContextNext]_vars

SpecSsn == InitSsn /\ [][ValidateCall]_vars

SpecStt == InitStt /\ [][SttNext]_vars

InitSink == SinkInit /\ PoolOff /\ IngressOff /\ SsnOff /\ SttOff /\ SonioxOff /\ BridgeOff /\ ChkOff /\ CapOff

InitSoniox == SonioxInit /\ PoolOff /\ IngressOff /\ SsnOff /\ SttOff /\ SinkOff /\ BridgeOff /\ ChkOff /\ CapOff

InitBridge == BridgeInit /\ SinkInit /\ PoolOff /\ IngressOff /\ SsnOff /\ SttOff /\ SonioxOff /\ ChkOff /\ CapOff

InitChk == ChkInit /\ PoolOff /\ IngressOff /\ SsnOff /\ SttOff /\ SinkOff /\ SonioxOff /\ BridgeOff /\ CapOff

SpecSink == InitSink /\ [][SinkNext]_vars

SpecSoniox == InitSoniox /\ [][SonioxNext]_vars

SpecConn == InitBridge /\ [][ConnNext]_vars

SpecHandshake == InitBridge /\ [][HandshakeNext]_vars

SpecBridge == InitBridge /\ [][BridgeNext]_vars

SpecChk == InitChk /\ [][IsValidCall]_vars

InitCap ==
  /\ CapInit /\ PoolOff /\ IngressOff /\ SsnOff /\ SttOff /\ SinkOff /\ SonioxOff
  /\ BridgeOff /\ ChkOff

SpecCapture == InitCap /\ [][CapNext]_vars

(* a caller holds the slot getAvailableTab returned to it until it gives   *)
(* the slot up (startBridge failed, or cleanupCall)                        *)
Holds(c) == pc[c] \in {"got", "starting", "active"}

(* ======================= claims on the slot pool ======================= *)

(* C1: in every reachable state each slot of the pool is busy if and only  *)
(* if its callId is non-null, and no two slots carry the same non-null     *)
(* callId.                                                                 *)
C1_BusyIffCallId ==
  /\ \A t \in TabSet : tabObj[t].busy <=> (tabObj[t].callId # None)
  /\ \A t, u \in TabSet :
       (t # u /\ tabObj[t].callId # None) => tabObj[t].callId # tabObj[u].callId

(* C2: getAvailableTab never returns a slot that another caller was given  *)
(* and has not yet released: no two callers hold the same slot.            *)
C2_ExclusiveSlot ==
  \A c, d \in Clients : (c # d /\ Holds(c) /\ Holds(d)) => held[c] # held[d]

C4_ReleaseKeepsSize ==
  [][\A c \in Clients :
       /\ (rel[c].pc = "reloading" /\ rel'[c].pc = "done") =>
             /\ tabs' = tabs
             /\ rel[c].tab \in TabSet'
             /\ tabObj'[rel[c].tab] = FreshTab
       /\ (rel[c].pc = "closing" /\ rel'[c].pc = "creating") =>
             Len(tabs') = Len(tabs) - 1
       /\ (rel[c].pc = "creating" /\ rel'[c].pc = "done") =>
             /\ Len(tabs') = Len(tabs) + 1
             /\ rel[c].new \in TabSet'
             /\ tabObj'[rel[c].new] = FreshTab
    ]_vars

(* C5: when the health monitor removes a slot that does not respond, no    *)
(* call stays recorded in activeCalls on the removed slot.                 *)
C5_ForceClosed ==
  [][(hm.pc = "probing" /\ hm'.pc = "creating") =>
        \A c \in Clients : activeCalls'[c] # hm.tab]_vars

(* ------------------------- proxy_server.js claims ---------------------- *)

(* the entry activeBridges holds for the page handler h opened *)
EntryOf(h) == \E i \in 1 .. Len(activeBridges) : activeBridges[i].page = h

(* the session of handler h is active: its page is open or it is registered *)
ActiveSession(h) == page[h].st = "open" \/ EntryOf(h)

(* C6: for every caller number at most one session of that caller is active *)
(* (page open or registered in activeBridges) at any time, whatever the     *)
(* interleaving of the webhook handlers.                                    *)
C6_OneSessionPerCaller ==
  \A h1, h2 \in Handlers :
    (h1 # h2 /\ hid[h1] # None /\ hid[h2] # None /\ CallerOf(hid[h1]) = CallerOf(hid[h2]))
      => ~(ActiveSession(h1) /\ ActiveSession(h2))

(* C7: two deliveries of the same call id inside the dedup window (both     *)
(* TTL timers still armed) never both get a session: at most one of them    *)
(* is accepted and has a page that has not been closed.                     *)
C7_OneSessionPerId ==
  \A h1, h2 \in Handlers :
    (h1 # h2 /\ hid[h1] # None /\ hid[h1] = hid[h2])
      => ~(/\ ttl[h1] = "armed" /\ page[h1].st # "closed"
           /\ ttl[h2] = "armed" /\ page[h2].st # "closed")

BringUp == {"launching", "opening", "loading", "registered", "failed"}

(* C8: the response of an accepted webhook is sent before bring-up starts   *)
(* (a handler in or past bring-up has responded with the actions), and it   *)
(* is sent by a step that no bring-up step precedes: the handler is at its  *)
(* arrival or in the same-caller loop, and has opened no page.              *)
C8_ResponseBeforeBringUp ==
  /\ [](\A h \in Handlers : (hpc[h] \in BringUp \/ page[h].st # "none") => resp[h] = "actions")
  /\ [][\A h \in Handlers :
          (resp[h] # "actions" /\ resp'[h] = "actions")
            => (hpc[h] \in {"idle", "closingOld"} /\ page[h].st = "none")]_vars

C8_Witness ==
  \E h \in Handlers : hpc[h] = "loading" /\ resp[h] = "actions" /\ page[h].st = "open"

(* some teardown of the session of h is still awaiting page.close() *)
TeardownInFlight(h) ==
  \/ poller[h] = "closing"
  \/ fallback[h] = "closing"
  \/ \E d \in Handlers : hpc[d] = "closingOld" /\ iter[d].page = h

(* C9: once the fallback timer of a registered session has run and no       *)
(* teardown of the session is still in flight, the entry of that session is *)
(* no longer in activeBridges.                                              *)
C9_FallbackRemoves ==
  \A h \in Handlers :
    (fallback[h] \in {"done", "threw"} /\ ~TeardownInFlight(h)) => ~EntryOf(h)

(* a hangup was handled on the page of handler h *)
HungUpOn(h) == \E id \in CallIds : hangup[id].pc = "done" /\ hangup[id].page = h

(* the poller and the fallback timer of the session of h have done their work *)
TeardownSettled(h) ==
  /\ ~PollerRunning(h)
  /\ fallback[h] \in {"done", "threw"}
  /\ ~TeardownInFlight(h)

(* a dedup key of the call of handler h is in the Set only for a later *)
(* delivery whose own TTL timer is still armed                         *)
KeysRemoved(h) ==
  /\ IdKey(hid[h]) \in processedWebhooks
       => \E d \in Handlers : d # h /\ hid[d] = hid[h] /\ ttl[d] = "armed"
  /\ ActiveKey(CallerOf(hid[h])) \in processedWebhooks
       => \E d \in Handlers :
            d # h /\ hid[d] # None /\ CallerOf(hid[d]) = CallerOf(hid[h]) /\ ttl[d] = "armed"

(* C10: the hangup event deletes the call's DTMF buffer; the evaluate in an *)
(* open page closes the relay socket and stops the processor; and when the  *)
(* poller and the fallback timer of the session have done their work the    *)
(* page is closed, the session is out of activeBridges and its two dedup    *)
(* keys are out of processedWebhooks.                                       *)
C10_HangupTearsDown ==
  /\ [][\A id \in CallIds :
          /\ (hangup[id].pc = "none" /\ hangup'[id].pc # "none") => dtmfBuffer'[id] = NoBuffer
          /\ (hangup[id].pc = "evaluating" /\ hangup'[id].pc = "done")
               => (~page'[hangup[id].page].ws /\ ~page'[hangup[id].page].proc)]_vars
  /\ [](\A h \in Handlers :
          (HungUpOn(h) /\ TeardownSettled(h))
            => (page[h].st = "closed" /\ ~EntryOf(h) /\ KeysRemoved(h)))

(* the hangup event of the call of delivery h has been handled to its end, *)
(* and no other delivery carried the same call id                          *)
HangupProcessed(h) ==
  /\ hid[h] # None
  /\ hangup[hid[h]].pc = "done"
  /\ \A g \in Handlers : g # h => hid[g] # hid[h]

(* C11: once the hangup event of a call has been processed, no agent audio *)
(* message the relay socket of the call's page receives afterwards is      *)
(* enqueued into the virtual audio sink of that page.                      *)
C11_NoAudioAfterHangup ==
  [][\A h \in Handlers : HangupProcessed(h) => page'[h].audio <= page[h].audio]_vars

(* the accumulator of call id holds no digit *)
NoDigits(id) == dtmfBuffer[id] \in {NoBuffer, <<>>}

(* C12: when the handling of a '*' or a '#' reaches its end the call's     *)
(* accumulator is empty, whatever the validation, the outbound request and *)
(* the contextual update did; a step that handles any other digit appends  *)
(* that digit at the end of the accumulator and removes nothing.           *)
C12_StarHashClear ==
  /\ [][\A k \in DtmfSlots :
          (dh[k].pc # "done" /\ dh'[k].pc = "done") =>
             dtmfBuffer'[dh'[k].id] \in {NoBuffer, <<>>}]_vars
  /\ [][\A id \in CallIds :
          (dh' = dh /\ hangup' = hangup /\ dtmfBuffer'[id] # dtmfBuffer[id]) =>
             \E d \in DigitKeys : dtmfBuffer'[id] = Append(BufferOf(id), d)]_vars

(* the call of delivery h has ended: its hangup event was handled, the   *)
(* poller cleaned up after the title CALL_ENDED, or the fallback timer   *)
(* ran                                                                   *)
CallEnded(h) ==
  /\ hid[h] # None
  /\ \/ hangup[hid[h]].pc = "done"
     \/ poller[h] = "stopped"
     \/ fallback[h] = "done"

(* C13: once a call has ended, by hangup, by the CALL_ENDED cleanup or by *)
(* the fallback timeout, dtmfBuffer holds no entry with digits for its    *)
(* call id, also when DTMF events for the id arrive after the end.        *)
C13_ClearedAtEnd ==
  \A h \in Handlers : CallEnded(h) => NoDigits(hid[h])

(* ================ claims on validateSwedishSSN ========================= *)

(* the century the pivot year gives a two-digit year *)
PivotCentury(ssn10) == IF ParseInt2(ssn10, 0) < 30 THEN <<2, 0>> ELSE <<1, 9>>

(* C14: for a checksum-valid 10-digit entry validateSwedishSSN returns the *)
(* 12 digits whose century the pivot year chooses, for a checksum-valid    *)
(* 12-digit entry it returns exactly the 12 digits entered, and for every  *)
(* other digit string it returns no identity.                              *)
C14_BothFormats ==
  ssnOut # NotCalled =>
    IF Len(ssnIn) = 10 /\ isValidSwedishSSN(ssnIn)
      THEN ssnOut = PivotCentury(ssnIn) \o ssnIn
      ELSE IF Len(ssnIn) = 12 /\ isValidSwedishSSN(SubSeq(ssnIn, 3, 12))
             THEN ssnOut = ssnIn
             ELSE ssnOut = NoSsn

(* =================== claims on the context endpoint ==================== *)

(* C15: POST /api/context/{callId} answers 404 and forwards nothing when   *)
(* the call is not in activeBridges; when the call is there the update is  *)
(* sent unchanged on the relay socket of the call's page, so an answer of  *)
(* 200 implies that the update was sent.                                   *)
C15_ContextForwarded ==
  /\ [](ctx.status = 404 => ctx.sent = NoUpdate)
  /\ [](ctx.status = 200 => ctx.sent = ctx.update)
  /\ [][(ctx.pc = "idle" /\ ctx'.update # NoUpdate /\ ~HasBridge(ctx'.id)) =>
          ctx'.status = 404]_vars

(* ================= claims on malformed webhooks ======================== *)

(* delivery h carried no call: its body did not parse or had no id *)
NoCall(h) == hpc[h] # "idle" /\ hid[h] \in {None, UndefinedId}

(* C16: an inbound-call webhook whose body is not valid JSON, or is JSON   *)
(* without the call id and the caller number, has no session impact: no    *)
(* page is opened for it, and its arrival leaves processedWebhooks and     *)
(* activeBridges as they were.                                             *)
C16_MalformedNoImpact ==
  /\ [](\A h \in Handlers : NoCall(h) => page[h].st = "none")
  /\ [][\A h \in Handlers :
          (hpc[h] = "idle" /\ NoCall(h)') =>
             /\ processedWebhooks' = processedWebhooks
             /\ activeBridges' = activeBridges]_vars

(* ======================= claims on SonioxSTT =========================== *)

(* both texts are empty *)
BufferEmpty == currentTranscript = <<>> /\ partialTranscript = <<>>

(* C17: handleMessage appends the final tokens of a batch to              *)
(* currentTranscript and replaces partialTranscript by the non-final      *)
(* tokens of that batch; over any sequence of batches currentTranscript   *)
(* changes only by growing at its end, until a flush or stop() resets     *)
(* both texts to empty.                                                   *)
C17_AppendOnly ==
  /\ [][\A tokens \in Batches :
          HandleMessage(tokens) =>
             \/ BufferEmpty'
             \/ /\ currentTranscript' = currentTranscript \o TextOf(tokens, TRUE)
                /\ partialTranscript' = TextOf(tokens, FALSE)]_vars
  /\ [][currentTranscript' # currentTranscript =>
          \/ BufferEmpty'
          \/ /\ Len(currentTranscript') > Len(currentTranscript)
             /\ SubSeq(currentTranscript', 1, Len(currentTranscript)) = currentTranscript]_vars

(* C17 witness: after a flush, final tokens have been accumulated again *)
(* and non-final tokens are pending                                     *)
C17_Witness ==
  /\ transcripts # <<>>
  /\ currentTranscript # <<>>
  /\ partialTranscript # <<>>

(* C18: whenever a token batch carries the endpoint marker, after it is   *)
(* handled both texts are empty; onTranscript is called exactly once, with *)
(* the trimmed currentTranscript, when that trimmed text is non-empty, and *)
(* not at all when it is empty (the texts are reset in that case too).     *)
C18_EndpointFlush ==
  [][\A tokens \in Batches :
       (HasEndpoint(tokens) /\ HandleMessage(tokens)) =>
          /\ BufferEmpty'
          /\ transcripts' =
               IF Trim(currentTranscript \o TextOf(tokens, TRUE)) # <<>>
                 THEN Append(transcripts, Trim(currentTranscript \o TextOf(tokens, TRUE)))
                 ELSE transcripts]_vars

(* the text of the last onTranscript call *)
LastTranscript == transcripts[Len(transcripts)]

(* C19: the batches [Hello non-final], [Hello final], [world final],      *)
(* [endpoint], fed to a fresh instance, give exactly one onTranscript     *)
(* call, with "Hello world", and leave both texts empty; in general the   *)
(* text given to onTranscript holds every final token since the last      *)
(* flush once, in receipt order, and no non-final token.                  *)
C19_HelloWorld ==
  /\ [][(transcripts = <<>> /\ BufferEmpty
          /\ HandleMessage(<<[text |-> "Hello", is_final |-> FALSE]>>)) =>
            (currentTranscript' = <<>> /\ partialTranscript' = <<"Hello">>)]_vars
  /\ [][(transcripts = <<>> /\ currentTranscript = <<>> /\ partialTranscript = <<"Hello">>
          /\ HandleMessage(<<[text |-> "Hello", is_final |-> TRUE]>>)) =>
            (currentTranscript' = <<"Hello">> /\ partialTranscript' = <<>>)]_vars
  /\ [][(transcripts = <<>> /\ currentTranscript = <<"Hello">> /\ partialTranscript = <<>>
          /\ HandleMessage(<<[text |-> "world", is_final |-> TRUE]>>)) =>
            (currentTranscript' = <<"Hello", "world">> /\ partialTranscript' = <<>>)]_vars
  /\ [][(transcripts = <<>> /\ currentTranscript = <<"Hello", "world">>
          /\ partialTranscript = <<>>
          /\ HandleMessage(<<[text |-> EndMarker, is_final |-> TRUE]>>)) =>
            (transcripts' = <<<<"Hello", " ", "world">>>> /\ BufferEmpty')]_vars
  /\ [][\A tokens \in Batches :
          (HandleMessage(tokens) /\ transcripts' # transcripts) =>
             /\ Len(transcripts') = Len(transcripts) + 1
             /\ LastTranscript' = Trim(currentTranscript \o TextOf(tokens, TRUE))]_vars

(* C20: finalize() forces a flush outside endpoint detection: called while *)
(* the trimmed currentTranscript is non-empty, it has the completed        *)
(* transcript given to onTranscript and both texts reset, with no later    *)
(* endpoint marker from the engine.                                        *)
C20_FinalizeFlushes ==
  [][(Finalize /\ Trim(currentTranscript) # <<>>) =>
       /\ transcripts' = Append(transcripts, Trim(currentTranscript))
       /\ BufferEmpty']_vars

(* =================== claims on what runs in the page =================== *)

(* audio was forwarded to the engine within the silence threshold *)
AudioWithinThreshold ==
  sttLog.lastChunk # None /\ now - sttLog.lastChunk <= SilenceThresholdMs

(* C21: on every keepalive tick with the STT socket open a keepalive is   *)
(* sent if no audio was forwarded to the engine during the preceding      *)
(* silence threshold and is not sent if audio was forwarded within it;    *)
(* after stop() no keepalive is ever sent.                                *)
C21_Keepalive ==
  [][/\ (sttLog'.ticks # sttLog.ticks /\ stt.wsRef /\ stt.ws = "open") =>
          (sttLog'.keepalives # sttLog.keepalives <=> ~AudioWithinThreshold)
     /\ stt.stop # "no" => sttLog'.keepalives = sttLog.keepalives]_vars

(* the callback of the connect timer runs in this step *)
TimeoutFires == stt.timer = "armed" /\ stt'.timer = "fired"

(* C22: if the STT socket does not open within the connect bound,         *)
(* initialize fails as a fatal session error: status 'error' is reported, *)
(* onError is invoked, the promise rejects, and the relay never becomes   *)
(* active (isActive stays false, no audio is forwarded, no keepalive      *)
(* timer runs); if the socket opened in time, the later firing of the     *)
(* timeout has no effect.                                                 *)
C22_ConnectTimeout ==
  [][/\ (TimeoutFires /\ stt.promise = "pending") =>
          /\ stt'.init = "failed"
          /\ stt'.promise = "rejected"
          /\ sttLog'.status = Append(sttLog.status, "error")
          /\ sttLog'.errors = sttLog.errors + 1
     /\ stt'.init = "failed" =>
          /\ ~stt'.isActive /\ ~stt'.audioProcessor /\ ~stt'.keepaliveInterval
          /\ sttLog'.lastChunk = None /\ sttLog'.keepalives = 0
     /\ (TimeoutFires /\ stt.promise # "pending") =>
          /\ stt' = [stt EXCEPT !.timer = "fired"]
          /\ UNCHANGED <<sttLog, now>>]_vars

(* the timer fired first and the socket opened afterwards *)
C22_Witness ==
  /\ stt.init = "failed" /\ stt.timer = "fired" /\ stt.ws = "open"
  /\ sttLog.errors = 1 /\ sttLog.config = 1

(* the step sends a message of one of these kinds *)
Sends(types) ==
  /\ Len(wire') = Len(wire) + 1
  /\ wire'[Len(wire')].type \in types

ClientDataSent ==
  \E i \in 1 .. Len(wire) : wire[i].type = "conversation_initiation_client_data"

UserTurn == {"text", "user_input", "user_message"}

(* C23: the relay follows the handshake in strict order: it sends the     *)
(* client-data message only after receiving initiation-metadata, and it   *)
(* becomes ready only after that, on an acknowledgment or a ping; no user *)
(* audio chunk and no text message is sent on the connection before it is *)
(* ready, for every order in which the service's messages arrive.         *)
C23_HandshakeOrder ==
  [][/\ Sends({"conversation_initiation_client_data"}) =>
          \E k \in Socks :
            HandleAgentMessage(k, [type |-> "conversation_initiation_metadata", id |-> 0])
     /\ (el'.conversationReady /\ ~el.conversationReady) =>
          /\ ClientDataSent
          /\ \E k \in Socks, m \in AgentMessages :
               /\ m.type \in {"conversation_initiation_client_data_received", "ping"}
               /\ HandleAgentMessage(k, m)
     /\ Sends(UserTurn \cup {"user_audio_chunk"}) => el.conversationReady]_vars

(* the user-turn messages on the wire that came of the call numbered c *)
TurnsOf(w, c) == {i \in 1 .. Len(w) : w[i].type \in UserTurn /\ w[i].ref = c}

(* C24: sendTextMessage(text) sends nothing when the relay is not ready,  *)
(* the socket is not open, or the text is blank after trimming; otherwise *)
(* it dispatches exactly one user-turn message carrying the trimmed text  *)
(* for that call.                                                         *)
C24_OneUserTurn ==
  [][/\ \A t \in Texts :
          SendTextMessage(t) =>
            IF ~WsIsOpen \/ ~el.conversationReady \/ Trim(t) = <<>>
              THEN wire' = wire /\ elLog'.timers = elLog.timers
              ELSE \E type \in UserTurn :
                     wire' = Append(wire, Sent(el.ws, type, elLog.sends + 1, Trim(t)))
     /\ \A c \in 1 .. MaxSends : Cardinality(TurnsOf(wire', c)) <= 1]_vars

(* C25: when the relay receives an interruption message from the service, *)
(* the sink's clearBuffer() is called before any later message is         *)
(* handled, so queued agent audio is discarded.                           *)
C25_InterruptionClears ==
  [][\A k \in Socks :
       HandleAgentMessage(k, [type |-> "interruption", id |-> 0]) =>
         /\ sinkLog'.clears = sinkLog.clears + 1
         /\ audioQueue' = <<>>]_vars

(* socket k is closed in this step *)
Closes(k) == sock'[k].closes = sock[k].closes + 1

(* C26: on every close of the relay socket the relay reports              *)
(* 'disconnected', and it reports the forced-hangup trigger               *)
(* 'error_disconnect' exactly when the close is not a clean, expected     *)
(* close (wasClean is false or the close code is not 1000), at most once  *)
(* per connection.                                                        *)
C26_CloseReports ==
  [][/\ \A k \in Socks :
          Closes(k) =>
            elLog'.status =
              elLog.status \o <<"disconnected">>
                \o (IF ~sock'[k].ev.wasClean \/ sock'[k].ev.code # NormalClosure
                      THEN <<"error_disconnect">> ELSE <<>>)
     /\ (\A k \in Socks : ~Closes(k)) =>
          \A i \in Len(elLog.status) + 1 .. Len(elLog'.status) :
            elLog'.status[i] \notin {"disconnected", "error_disconnect"}
     /\ \A k \in Socks : sock'[k].closes <= 1]_vars

(* both connections closed: one with a clean close that carries no code, *)
(* one with the expected close                                           *)
C26_Witness ==
  /\ sock["public"].closes = 1 /\ sock["public"].ev = [wasClean |-> TRUE, code |-> 1005]
  /\ sock["signed"].closes = 1
  /\ sock["signed"].ev = [wasClean |-> TRUE, code |-> NormalClosure]

(* C29: after the handshake, every ping received while the socket is open *)
(* is answered with exactly one pong that echoes the ping's event         *)
(* identifier, and the pong is sent before any later incoming message is  *)
(* handled (the pong is sent in the step that handles the ping, on the    *)
(* socket in this.ws; this holds before the handshake as well).           *)
C29_PingPong ==
  [][\A k \in Socks, e \in EventIds :
       (HandleAgentMessage(k, [type |-> "ping", id |-> e]) /\ WsIsOpen) =>
         wire' = Append(wire, Sent(el.ws, "pong", e, <<>>))]_vars

(* the handshake ran in order and a ping was answered after it *)
C29_Witness ==
  /\ elLog.handled = 3
  /\ Len(wire) = 2
  /\ wire[1].type = "conversation_initiation_client_data"
  /\ wire[2] = Sent("public", "pong", 2, <<>>)
  /\ Len(elLog.status) > 0
  /\ elLog.status[Len(elLog.status)] = "conversation_ready"

(* the agent frames among the nodes made so far, in the order of start() *)
Started(ns) == SelectSeq(ns, LAMBDA x : x.buffer.kind = "agent")

(* C27: playback in the sink is sequential and first in, first out: at    *)
(* any time at most one frame is playing (so a frame starts only after    *)
(* the one before it has completed or was stopped), and the agent's       *)
(* frames start in the order in which they were enqueued, for every       *)
(* interleaving of addAudioData, ended events and clearBuffer.            *)
C27_SequentialFifo ==
  /\ Cardinality(Sounding(nodes)) <= 1
  /\ \A i, j \in 1 .. Len(Started(nodes)) :
       i < j => Started(nodes)[i].buffer.n < Started(nodes)[j].buffer.n

(* a step of clearBuffer() taken while the sink plays with frames queued *)
ClearsWhilePlaying ==
  /\ sinkLog'.clears = sinkLog.clears + 1
  /\ isPlaying
  /\ audioQueue # <<>>

(* the silence frame of the latest clearBuffer() completes, with no frame *)
(* enqueued since that call                                               *)
SilenceCompletes ==
  /\ sinkLog.clearNode # None
  /\ sinkLog'.clears = sinkLog.clears
  /\ sinkLog.enqueued = sinkLog.clearAt
  /\ nodes[sinkLog.clearNode].st = "playing"
  /\ nodes'[sinkLog.clearNode].st = "ended"

(* the agent's frames that are in flight *)
InFlight(ns) == {s \in Sounding(ns) : ns[s].buffer.kind = "agent"}

(* C28: clearBuffer() called while the sink is playing with frames queued *)
(* stops every frame of the agent in flight, leaves the queue without any *)
(* of the frames that were queued and starts one silence frame of 50 ms;  *)
(* no frame that a clearBuffer() dropped is played afterwards; and when   *)
(* that silence frame completes, nothing being enqueued meanwhile, the    *)
(* sink is idle: isPlaying false, nothing queued, no frame in flight.     *)
C28_ClearBuffer ==
  [][/\ ClearsWhilePlaying =>
          /\ \A s \in InFlight(nodes) : nodes'[s].st # "playing"
          /\ audioQueue' = <<>>
          /\ Len(nodes') = Len(nodes) + 1
          /\ nodes'[Len(nodes')] =
               [buffer |-> SilenceFrame(SinkSilenceMs), st |-> "playing"]
          /\ isPlaying'
     /\ \A s \in Len(nodes) + 1 .. Len(nodes') :
          nodes'[s].buffer \notin sinkLog'.dropped
     /\ SilenceCompletes =>
          /\ ~isPlaying'
          /\ audioQueue' = <<>>
          /\ InFlight(nodes') = {}]_vars

(* the sum of the decimal digits of a product of a digit and a weight *)
DigitSum(p) == (p \div 10) + (p % 10)

(* the Luhn total of the first n digits of s under the weights 2, 1, 2, 1, ... *)
RECURSIVE WeightedTotal(_, _)
WeightedTotal(s, n) ==
  IF n = 0
    THEN 0
    ELSE WeightedTotal(s, n - 1) + DigitSum(s[n] * (IF n % 2 = 1 THEN 2 ELSE 1))

(* the digit that brings the Luhn total of the first nine digits to a *)
(* multiple of ten                                                    *)
CheckDigit(s) == CHOOSE d \in 0 .. 9 : (WeightedTotal(s, 9) + d) % 10 = 0

(* what the claim says of a string: ten decimal digits, month and day in *)
(* range, and the tenth digit the Luhn check digit of the first nine     *)
Acceptable(s) ==
  /\ Len(s) = 10
  /\ \A i \in 1 .. 10 : s[i] \in 0 .. 9
  /\ 10 * s[3] + s[4] >= 1 /\ 10 * s[3] + s[4] <= 12
  /\ 10 * s[5] + s[6] >= 1 /\ 10 * s[5] + s[6] <= 31
  /\ s[10] = CheckDigit(s)

(* C30: isValidSwedishSSN accepts a string if and only if it is exactly   *)
(* ten decimal digits, its month is in 1..12, its day is in 1..31 and its *)
(* tenth digit is the Luhn check digit of the first nine under the        *)
(* weights 2,1,2,1,...; every call on the same string gives the same      *)
(* result.                                                                *)
C30_LuhnIff ==
  \A i \in 1 .. Len(chkOut) : chkOut[i] = Acceptable(chkIn)

(* a number with the right check digit was accepted twice *)
C30_Witness ==
  /\ chkIn = <<8, 1, 1, 2, 2, 4, 1, 2, 3, 0>>
  /\ chkOut = <<TRUE, TRUE>>

(* ================= claims on concurrent handlers ======================= *)

(* a step in which releaseTab or the health monitor deletes a slot and *)
(* starts the createTab() that replaces it                             *)
ReplacementStarts ==
  \/ hm.pc = "probing" /\ hm'.pc = "creating"
  \/ \E c \in Clients : rel[c].pc = "closing" /\ rel'[c].pc = "creating"

(* a step in which such a createTab() puts its slot in the pool *)
ReplacementEnds ==
  \/ hm.pc = "creating" /\ hm'.pc # "creating"
  \/ \E c \in Clients : rel[c].pc = "creating" /\ rel'[c].pc = "done"

(* C38: each dead slot is replaced by exactly one fresh slot: every       *)
(* replacement that releaseTab or the health monitor starts takes one     *)
(* slot out of the pool and puts one slot in, so the number of slots is   *)
(* afterwards what it was before, also when both handle the same slot.    *)
C38_OneReplacement ==
  [][/\ ReplacementStarts => Len(tabs') = Len(tabs) - 1
     /\ ReplacementEnds => Len(tabs') = Len(tabs) + 1]_vars

(* the releaseTab invocations whose page.reload() is pending on slot t *)
Resetting(t) == {c \in Clients : rel[c].pc = "reloading" /\ rel[c].tab = t}

(* C39: a slot stays unavailable for the whole of its reset: while the    *)
(* page.reload() of a releaseTab is pending, the slot, if still in the    *)
(* pool, is busy, and getAvailableTab never returns it.                   *)
C39_BusyWhileResetting ==
  /\ [](\A t \in TabSet : Resetting(t) # {} => tabObj[t].busy)
  /\ [][\A c \in Clients :
          (pc[c] \in {"idle", "created"} /\ pc'[c] = "got") =>
            Resetting(held'[c]) = {}]_vars

(* C40: a release frees only the holding it was issued for: when the      *)
(* reload of a releaseTab completes while a call other than the one that  *)
(* was released holds the slot, the slot's busy flag and callId stay as   *)
(* they are.                                                              *)
C40_ReleaseOwnHolding ==
  [][\A c \in Clients :
       (rel[c].pc = "reloading" /\ rel'[c].pc = "done") =>
         \A d \in Clients :
           (Holds(d) /\ held[d] = rel[c].tab) =>
             tabObj'[rel[c].tab] = tabObj[rel[c].tab]]_vars

(* the two dedup keys handleWebhook inserted for the call of delivery h *)
KeysOf(h) == {IdKey(hid[h]), ActiveKey(CallerOf(hid[h]))}

(* the call of delivery g was accepted, its own TTL timer has not fired, *)
(* and it is in bring-up or registered on an open page that has not      *)
(* signalled CALL_ENDED                                                  *)
LiveCall(g) ==
  /\ hid[g] # None
  /\ ttl[g] = "armed"
  /\ hpc[g] \in {"launching", "opening", "loading", "registered"}
  /\ hpc[g] = "registered" => (page[g].st = "open" /\ ~page[g].ended)

(* the TTL timer of delivery h fires, or its poller finishes its cleanup *)
CleansKeys(h) ==
  \/ ttl[h] = "armed" /\ ttl'[h] = "fired"
  \/ poller[h] = "closing" /\ poller'[h] = "stopped"

(* C32: the TTL timer and the CALL_ENDED poller of a call remove only the  *)
(* keys of that call: when one of them runs, the dedup keys of a later,    *)
(* live call of the same caller that are in processedWebhooks stay there.  *)
C32_OwnKeysOnly ==
  [][\A h, g \in Handlers :
       (CleansKeys(h) /\ h < g /\ LiveCall(g) /\ hid[g] # hid[h]) =>
         (KeysOf(g) \cap processedWebhooks) \subseteq processedWebhooks']_vars

(* C33: when bring-up fails after the webhook was accepted, the handler   *)
(* leaves no trace of the call: in the step in which the failure is       *)
(* handled the call's dedup keys leave processedWebhooks, and from then   *)
(* on the handler's page is not open and activeBridges has no entry for   *)
(* the page.                                                              *)
C33_FailedBringUpNoTrace ==
  /\ [][\A h \in Handlers :
          (hpc[h] # "failed" /\ hpc'[h] = "failed") =>
            KeysOf(h) \cap processedWebhooks' = {}]_vars
  /\ [](\A h \in Handlers : hpc[h] = "failed" => (page[h].st # "open" /\ ~EntryOf(h)))

(* the same-caller loop of delivery d comes to its end in this step *)
LoopEnds(d) ==
  /\ hpc'[d] \in {"launching", "opening"}
  /\ \/ hpc[d] = "closingOld"
     \/ hpc[d] = "idle" /\ ActiveKey(CallerOf(hid'[d])) \in processedWebhooks

(* the entries of caller n in the Map ab whose page is closed, but for *)
(* those a poller or a fallback timer is about to delete               *)
ClosedEntries(ab, n) ==
  {i \in 1 .. Len(ab) :
     /\ CallerOf(ab[i].id) = n
     /\ page'[ab[i].page].st = "closed"
     /\ poller[ab[i].page] # "closing"
     /\ fallback[ab[i].page] # "closing"}

(* C34: a session torn down by the same-caller replacement or by the      *)
(* fallback timer is out of activeBridges even when closing its page      *)
(* throws: once the fallback timer of a session has run to its end the    *)
(* session has no entry, and when the same-caller loop of a new call ends *)
(* no entry of that caller with a closed page is left.                    *)
C34_TeardownRemovesEntry ==
  /\ [](\A h \in Handlers :
          (fallback[h] \in {"done", "threw"} /\ ~TeardownInFlight(h)) => ~EntryOf(h))
  /\ [][\A d \in Handlers :
          LoopEnds(d) => ClosedEntries(activeBridges', CallerOf(hid'[d])) = {}]_vars

(* the handler in slot k is suspended on its request, its response or its *)
(* contextual update, and no other '*' or '#' of the call has been handled *)
SuspendedAlone(k) ==
  /\ dh[k].pc \in {"fetching", "reading", "updating"}
  /\ dh[k].att
  /\ \A j \in DtmfSlots : j # k => dh[j].id # dh[k].id

(* C35: digits that arrive for a call while the handler of an earlier '*' *)
(* or '#' of the call is suspended are not lost: when that handler ends,  *)
(* the digits pushed after it took the accumulator (those beyond the      *)
(* dh.had it found there) are the accumulator's content, in press order.  *)
C35_DigitsKept ==
  [][\A k \in DtmfSlots :
       (SuspendedAlone(k) /\ dh'[k].pc = "done") =>
         dtmfBuffer'[dh[k].id] =
           SubSeq(dtmfBuffer[dh[k].id], dh[k].had + 1, Len(dtmfBuffer[dh[k].id]))]_vars

(* the step reports 'error_disconnect', the status on which the page hangs *)
(* the call up                                                             *)
ErrorDisconnectRaised ==
  /\ Len(elLog'.status) > Len(elLog.status)
  /\ elLog'.status[Len(elLog'.status)] = "error_disconnect"

(* C36: 'error_disconnect' is raised only for the connection in use: the  *)
(* close event that raises it is that of the socket in this.ws, never     *)
(* that of the public socket the relay has replaced by the signed one,    *)
(* nor that of a socket endSession() has closed and forgotten.            *)
C36_ErrorForCurrentSocket ==
  [][\A k \in Socks : (Closes(k) /\ ErrorDisconnectRaised) => el.ws = k]_vars

(* ================== claims on SonioxSTT after stop() =================== *)

(* stop() has been called on the connected instance and no new            *)
(* connection has been made since                                         *)
StopCalled == sttWs \in {"closing", "awaiting", "stopped"}

(* handleMessage's fullPartial is non-empty: onPartialTranscript is called *)
PartialUpdate(tokens) ==
  AddFinal(currentTranscript, TextOf(tokens, TRUE)) \o TextOf(tokens, FALSE) # <<>>

RECURSIVE Joined(_)
Joined(cs) == IF cs = <<>> THEN <<>> ELSE Head(cs) \o Joined(Tail(cs))

(* C31: within one session the samples go to the engine in arrival order *)
(* in chunks of exactly SAMPLES_PER_CHUNK samples: after every audio     *)
(* callback audioBuffer holds fewer samples than one chunk, and the      *)
(* chunks sent followed by audioBuffer are the samples accepted so far,  *)
(* none lost, duplicated or reordered.                                   *)
C31_ChunksInOrder ==
  /\ \A c \in 1 .. Len(chunks) : Len(chunks[c]) = SAMPLES_PER_CHUNK
  /\ Len(audioBuffer) < SAMPLES_PER_CHUNK
  /\ Joined(chunks) \o audioBuffer = heard
  /\ \A i \in 1 .. (Len(heard) - 1) : heard[i].at < heard[i + 1].at

(* C31 witness: three callbacks were accepted, the last with the clamped *)
(* level: seven chunks went out and 1088 samples wait in audioBuffer     *)
C31_Witness ==
  /\ Len(heard) = 3 * FrameSize
  /\ Len(chunks) = 7
  /\ Len(audioBuffer) = 3 * FrameSize - 7 * SAMPLES_PER_CHUNK
  /\ audioBuffer[Len(audioBuffer)].v = -32768

====
